---- MODULE Spec2Model ----
(***************************************************************************)
(* Model of the ingestion/tracking engine of Colpali-docker:               *)
(*   - SQLiteMetadataStore (src/etl/utils.py): the `files` table,          *)
(*   - FileTracker (src/utils/pipeline_utils.py): the `file_tracking`      *)
(*     table,                                                              *)
(*   - ETLPipeline.process_file / process_batch (src/etl/pipeline.py),     *)
(*   - SharePointToBlobUploader.transfer_files / retry_failed_files.       *)
(* Timestamps, file names/sizes and the free-form metadata column are not  *)
(* modelled: no operation reads them.  blob_name is written together with  *)
(* blob_url and is represented by it.                                      *)
(***************************************************************************)
EXTENDS Integers, Sequences, FiniteSets, TLC

(***************************************************************************)
(* Bounds of the model.                                                    *)
(***************************************************************************)
\* retry_count is an unbounded INTEGER column; the guards stop at this value.
MaxRetryCount == 2
\* number of add_file calls the store-level callers make in all
MaxStoreCalls == 2

\* status writes 'failed' per file hash made by concurrent except handlers
MaxFailedCalls == 3
\* number of file_list entries handed to the ETL pipeline in all
MaxItems == 4
\* the same, in the runs with two concurrent workers
MaxRaceItems == 2
\* number of transfer_files / retry_failed_files calls
MaxUploaderRuns == 3
\* longest file_list of one process_batch call
MaxBatchLen == 3
\* file_list entries handed to a process that can be killed
MaxCrashItems == 2
\* number of process_batch calls of the ETL pipeline
MaxBatches == 2

(***************************************************************************)
(* Values.                                                                 *)
(***************************************************************************)
\* Python None / SQL NULL in a text column
None == "<None>"
\* Python truthiness of an Optional[str]: `if error_message:`
Truthy(x) == x # None /\ x # ""

\* file contents: short byte strings
Contents == {<<0>>, <<1>>}

\* hashlib: update() folds the bytes into the digest state.  The fold below
\* is collision-free on the contents of the model, as SHA-256 is taken to be.
RECURSIVE hash_update(_, _)
hash_update(h, chunk) ==
    IF chunk = <<>> THEN h
    ELSE hash_update(3 * h + Head(chunk) + 1, Tail(chunk))

calculate_hash_from_bytes(data) == hash_update(0, data)

Hashes == {calculate_hash_from_bytes(c) : c \in Contents}

\* file_id values: uuid4 strings in the ETL pipeline, "<folder>/<name>" in
\* the uploader
FileIds == {1, 2}

ETLStatuses == {"pending", "uploaded", "processing", "embedded", "failed"}
TrackerStatuses == {"pending", "processing", "completed", "failed"}

\* str(e) of an exception: some exceptions have an empty message
ErrorTexts == {"", "boom"}
BlobUrls == {"url"}

Callers == {1, 2}

\* concurrent pipeline runs on one database
Workers == {1, 2}

VARIABLES
    program,        \* which database this run uses: "etl" or "uploader"
    files,          \* SQLiteMetadataStore: rows of table `files`
    file_tracking,  \* FileTracker: rows of table `file_tracking`
    next_uuid,      \* uuid.uuid4(): the next unused identifier
    callst,         \* store-level callers: the add_file call in flight
    created,        \* history: per hash, how many add_file calls returned True
    failed_calls,   \* history: per hash, status writes 'failed' that reached its row
    wk,             \* ETL pipeline: each worker's position and locals
    items_started,  \* number of file_list entries handed to the pipeline so far
    hist,           \* history: per hash, what the pipeline runs did
    sharepoint,     \* the SharePoint folder: the content behind each file name
    up,             \* SharePointToBlobUploader: position and locals of its call
    up_runs,        \* number of uploader calls started so far
    processing_batches, \* SQLiteMetadataStore: rows of table `processing_batches`
    hasher,         \* FileHasher / calculate_file_hash: the hashing call in flight
    documents,      \* per content hash: the file's type and its number of pages
    embeddings,     \* SQLiteMetadataStore: rows of table `embeddings`
    qdrant,         \* VectorDBManager: the points of the Qdrant collection
    registry,       \* DocumentProcessorFactory: the get_processor call in flight
    startup,        \* src/api.py startup_event: position, attempt and log
    deleted         \* history: the file_ids delete_document removed from Qdrant

storeVars == <<files, file_tracking>>
indexVars == <<embeddings, qdrant>>
upVars == <<sharepoint, up, up_runs>>
pipeVars == <<wk, items_started, hist, upVars, processing_batches>>
vars == <<program, files, file_tracking, next_uuid, callst, created, failed_calls,
          wk, items_started, hist, sharepoint, up, up_runs, processing_batches,
          hasher, documents, embeddings, qdrant, registry, startup, deleted>>

(***************************************************************************)
(* The tables.                                                             *)
(***************************************************************************)
\* INSERT INTO files ... VALUES (..., 'pending'): the columns not named get
\* their defaults (retry_count 0, the rest NULL)
NewFileRow(file_id, file_hash) ==
    [file_id |-> file_id, file_hash |-> file_hash, status |-> "pending",
     blob_url |-> None, error_message |-> None, retry_count |-> 0]

\* a lookup that only finds rows still waiting to be processed
file_exists_PendingOnly(tbl, file_hash) ==
    {r \in tbl : r.file_hash = file_hash /\ r.status = "pending"}

\* SELECT * FROM files WHERE file_hash = ?  (the rows; fetchone takes one)
file_exists(tbl, file_hash) == {r \in tbl : r.file_hash = file_hash}

\* Schema without the UNIQUE constraint on file_hash
IntegrityError_PrimaryKeyOnly(tbl, row) ==
    \E r \in tbl : r.file_id = row.file_id

\* file_id TEXT PRIMARY KEY, file_hash TEXT NOT NULL UNIQUE: the INSERT
\* raises sqlite3.IntegrityError when either is already present
IntegrityError(tbl, row) ==
    \E r \in tbl : r.file_id = row.file_id \/ r.file_hash = row.file_hash

\* UPDATE that counts a retry on every write of an error_message argument,
\* falsy or not
update_row_CountAlways(r, status, blob_url, error_message) ==
    [r EXCEPT !.status = status,
              !.blob_url = IF Truthy(blob_url) THEN blob_url ELSE @,
              !.error_message = IF error_message # None THEN error_message ELSE @,
              !.retry_count = IF error_message # None THEN @ + 1 ELSE @]

\* a SET clause that starts the count again when a file makes it through
update_row_ResetOnSuccess(r, status, blob_url, error_message) ==
    [r EXCEPT !.status = status,
              !.blob_url = IF Truthy(blob_url) THEN blob_url ELSE @,
              !.error_message = IF Truthy(error_message) THEN error_message ELSE @,
              !.retry_count = IF Truthy(error_message) THEN @ + 1
                              ELSE IF status \in {"completed", "embedded"} THEN 0
                              ELSE @]

\* the SET clause built by update_file_status / update_status
update_row(r, status, blob_url, error_message) ==
    [r EXCEPT !.status = status,
              !.blob_url = IF Truthy(blob_url) THEN blob_url ELSE @,
              !.error_message = IF Truthy(error_message) THEN error_message ELSE @,
              !.retry_count = IF Truthy(error_message) THEN @ + 1 ELSE @]

\* UPDATE files SET ... WHERE file_hash = ?
update_file_status(tbl, file_hash, status, blob_url, error_message) ==
    {IF r.file_hash = file_hash
        THEN update_row(r, status, blob_url, error_message)
        ELSE r : r \in tbl}

\* FileTracker.update_status: the same statement on file_tracking
update_status(tbl, file_hash, status, blob_url, error_message) ==
    {IF r.file_hash = file_hash
        THEN update_row(r, status, blob_url, error_message)
        ELSE r : r \in tbl}

\* SELECT * FROM file_tracking WHERE status = 'pending'
get_pending_files(tbl) == {r \in tbl : r.status = "pending"}

\* WHERE with retry_count <= ? in place of <
get_failed_files_Inclusive(tbl, max_retries) ==
    {r \in tbl : r.status = "failed" /\ r.retry_count <= max_retries}

\* SELECT * FROM file_tracking WHERE status = 'failed' AND retry_count < ?
get_failed_files(tbl, max_retries) ==
    {r \in tbl : r.status = "failed" /\ r.retry_count < max_retries}

\* UPDATE without the WHERE clause's restriction to 'processing': failed
\* rows are reset as well
reset_processing_files_AlsoFailed(tbl) ==
    {IF r.status \in {"processing", "failed"}
        THEN [r EXCEPT !.status = "pending"] ELSE r : r \in tbl}

\* UPDATE file_tracking SET status = 'pending' WHERE status = 'processing'
reset_processing_files(tbl) ==
    {IF r.status = "processing" THEN [r EXCEPT !.status = "pending"] ELSE r
        : r \in tbl}

(***************************************************************************)
(* Store-level specification: callers invoke the operations of one store   *)
(* directly, in any order and with any arguments.  add_file is two         *)
(* statements on two connections (file_exists, then INSERT), so calls of   *)
(* different callers interleave between them.                              *)
(***************************************************************************)
\* PDFProcessor.can_process, ImageProcessor.SUPPORTED_FORMATS
SUPPORTED_FORMATS == {".png", ".jpg", ".jpeg", ".bmp", ".tiff", ".webp"}

\* a factory whose last processor accepts every file
get_processor_AcceptsAll(file_type) ==
    IF file_type = ".pdf" THEN "PDFProcessor" ELSE "ImageProcessor"

\* DocumentProcessorFactory.get_processor: the first processor whose
\* can_process is true, or None
get_processor(file_type) ==
    IF file_type = ".pdf" THEN "PDFProcessor"
    ELSE IF file_type \in SUPPORTED_FORMATS THEN "ImageProcessor"
    ELSE None

\* raise ValueError(f"No processor found for file type: {file_type}")
NoProcessorFound == "No processor found for file type"

\* an image file: ImageProcessor.process returns [image]
OnePageImage == [file_type |-> ".png", pages |-> 1]

\* a worker outside any call
IdleWorker ==
    [pc |-> "idle", op |-> "none", skip |-> TRUE, queue |-> <<>>,
     file_hash |-> 0, file_id |-> 0, error |-> [stage |-> "none", text |-> None],
     batch_id |-> 0, file_list |-> <<>>, total_files |-> 0, results |-> <<>>,
     successful |-> 0, failed |-> 0, skipped |-> 0, raised |-> FALSE,
     images |-> 0, embeddings |-> 0, vector_ids |-> <<>>, page_num |-> 0]

\* the uploader outside any call
IdleUploader ==
    [pc |-> "idle", op |-> "none", skip |-> TRUE, queue |-> <<>>,
     file_hash |-> 0, limit |-> 0, listed |-> {}, fresh |-> FALSE,
     sp_files |-> <<>>, results |-> <<>>, updated |-> 0, all_files |-> {},
     batch_size |-> 0, batch_num |-> 0, total_batches |-> 0]

NoHistory == [uploads |-> 0, runs |-> 0, clean |-> TRUE, skip_only |-> TRUE]

\* get_processor has not been called
IdleRegistry == [pc |-> "idle", file_path |-> <<>>, index |-> 0, processor |-> None]

\* the API process before its startup event
NotStarted ==
    [pc |-> "init", QDRANT_URL |-> FALSE, QDRANT_API_KEY |-> FALSE,
     qdrant_client |-> "<None>", attempt |-> 0, attempts |-> 0, slept |-> 0,
     e |-> "<None>", log |-> <<>>]

\* delete_document has not been called
NoDeletes == [ids |-> {}, raised |-> FALSE]

\* no hashing call has been made yet
IdleHasher == [pc |-> "idle", op |-> "", data |-> <<>>, chunk_size |-> 0, pos |-> 0,
               hash_func |-> 0, digest |-> 0,
               prev |-> [seen |-> FALSE, op |-> "", data |-> <<>>, digest |-> 0]]

IdleCall == [pc |-> "idle", row |-> NewFileRow(0, 0), ret |-> FALSE, calls |-> 0]

InitTables ==
    /\ files = {}
    /\ file_tracking = {}
    /\ next_uuid = 1
    /\ callst = [c \in Callers |-> IdleCall]
    /\ created = [h \in Hashes |-> 0]
    /\ failed_calls = [h \in Hashes |-> 0]
    /\ wk = [w \in Workers |-> IdleWorker]
    /\ items_started = 0
    /\ hist = [h \in Hashes |-> NoHistory]
    /\ up = IdleUploader
    /\ up_runs = 0
    /\ processing_batches = {}
    /\ hasher = IdleHasher
    /\ embeddings = {}
    /\ qdrant = {}
    /\ registry = IdleRegistry
    /\ startup = NotStarted
    /\ deleted = NoDeletes

InitStore ==
    /\ program \in {"etl", "uploader"}
    /\ InitTables
    /\ documents = [h \in Hashes |-> OnePageImage]
    /\ sharepoint = [n \in FileIds |-> <<0>>]

\* add_file, lines "existing = self.file_exists(file_hash); if existing:
\* return False"
add_file_check(c, tbl, row) ==
    /\ callst[c].pc \in {"idle", "returned"}
    /\ callst[1].calls + callst[2].calls < MaxStoreCalls
    /\ callst' = [callst EXCEPT ![c] =
            [pc |-> IF file_exists(tbl, row.file_hash) # {} THEN "returned" ELSE "insert",
             row |-> row, ret |-> FALSE, calls |-> @.calls + 1]]

\* add_file, the INSERT: True after commit, False on sqlite3.IntegrityError
add_file_insert(c, tbl) ==
    /\ callst[c].pc = "insert"
    /\ LET ok == ~IntegrityError(tbl, callst[c].row)
           h == callst[c].row.file_hash
       IN /\ callst' = [callst EXCEPT ![c].pc = "returned", ![c].ret = ok]
          /\ created' = IF ok THEN [created EXCEPT ![h] = @ + 1] ELSE created

\* SQLiteMetadataStore.add_file called by the pipeline with a fresh uuid4
MetadataStore_add_file_check(c, h) ==
    /\ program = "etl"
    /\ add_file_check(c, files, NewFileRow(next_uuid, h))
    /\ next_uuid' = next_uuid + 1
    /\ UNCHANGED <<program, registry, startup, deleted, failed_calls, hasher, documents, indexVars, files, file_tracking, created, pipeVars>>

MetadataStore_add_file_insert(c) ==
    /\ program = "etl"
    /\ add_file_insert(c, files)
    /\ files' = IF callst'[c].ret THEN files \cup {callst[c].row} ELSE files
    /\ UNCHANGED <<program, registry, startup, deleted, failed_calls, hasher, documents, indexVars, file_tracking, next_uuid, pipeVars>>

\* SQLiteMetadataStore.update_file_status: one UPDATE statement
MetadataStore_update_file_status(h, status, blob_url, error_message) ==
    /\ program = "etl"
    /\ \A r \in file_exists(files, h) :
            Truthy(error_message) => r.retry_count < MaxRetryCount
    /\ files' = update_file_status(files, h, status, blob_url, error_message)
    /\ UNCHANGED <<program, registry, startup, deleted, failed_calls, hasher, documents, indexVars, file_tracking, next_uuid, callst,
                   created, pipeVars>>

\* FileTracker.add_file; file_id is "<folder>/<file name>"
FileTracker_add_file_check(c, id, h) ==
    /\ program = "uploader"
    /\ add_file_check(c, file_tracking, NewFileRow(id, h))
    /\ UNCHANGED <<program, registry, startup, deleted, failed_calls, hasher, documents, indexVars, files, file_tracking, next_uuid, created, pipeVars>>

FileTracker_add_file_insert(c) ==
    /\ program = "uploader"
    /\ add_file_insert(c, file_tracking)
    /\ file_tracking' = IF callst'[c].ret
                           THEN file_tracking \cup {callst[c].row}
                           ELSE file_tracking
    /\ UNCHANGED <<program, registry, startup, deleted, failed_calls, hasher, documents, indexVars, files, next_uuid, pipeVars>>

\* FileTracker.update_status: one UPDATE statement
FileTracker_update_status(h, status, blob_url, error_message) ==
    /\ program = "uploader"
    /\ \A r \in file_exists(file_tracking, h) :
            Truthy(error_message) => r.retry_count < MaxRetryCount
    /\ file_tracking' = update_status(file_tracking, h, status, blob_url, error_message)
    /\ UNCHANGED <<program, registry, startup, deleted, failed_calls, hasher, documents, indexVars, files, next_uuid, callst,
                   created, pipeVars>>

\* FileTracker.reset_processing_files
FileTracker_reset_processing_files ==
    /\ program = "uploader"
    /\ file_tracking' = reset_processing_files(file_tracking)
    /\ UNCHANGED <<program, registry, startup, deleted, failed_calls, hasher, documents, indexVars, files, next_uuid, callst, created, pipeVars>>

NextStore ==
    \/ \E c \in Callers, h \in Hashes : MetadataStore_add_file_check(c, h)
    \/ \E c \in Callers : MetadataStore_add_file_insert(c)
    \/ \E h \in Hashes, s \in ETLStatuses, b \in BlobUrls \cup {None},
          e \in ErrorTexts \cup {None} :
            MetadataStore_update_file_status(h, s, b, e)
    \/ \E c \in Callers, id \in FileIds, h \in Hashes :
            FileTracker_add_file_check(c, id, h)
    \/ \E c \in Callers : FileTracker_add_file_insert(c)
    \/ \E h \in Hashes, s \in TrackerStatuses, b \in BlobUrls \cup {None},
          e \in ErrorTexts \cup {None} :
            FileTracker_update_status(h, s, b, e)
    \/ FileTracker_reset_processing_files

SpecStore == InitStore /\ [][NextStore]_vars

\* the table of the store this run uses
Table == IF program = "etl" THEN files ELSE file_tracking

\* a caller's add_file call returns in this step
Returns(c) == callst'[c].pc = "returned" /\ callst'[c] # callst[c]

(***************************************************************************)
(* Claims settled under SpecStore.                                         *)
(***************************************************************************)
\* C1: in every reachable state of either store no two FileRecords have the
\* same file_hash, whatever add_file / update calls were made and however
\* the two statements of concurrent add_file calls interleave.
C1_HashUnique ==
    /\ \A r1 \in files : \A r2 \in files :
            r1.file_hash = r2.file_hash => r1 = r2
    /\ \A r1 \in file_tracking : \A r2 \in file_tracking :
            r1.file_hash = r2.file_hash => r1 = r2

\* C1 witness: two add_file calls for the same hash have both returned, one
\* True and one False, and one row holds that hash.
C1_Witness ==
    \E c1 \in Callers : \E c2 \in Callers \ {c1} :
        /\ callst[c1].pc = "returned" /\ callst[c2].pc = "returned"
        /\ callst[c1].row.file_hash = callst[c2].row.file_hash
        /\ callst[c1].ret /\ ~callst[c2].ret
        /\ Cardinality(file_exists(Table, callst[c1].row.file_hash)) = 1

\* C2: an add_file call that returns while its hash is already stored
\* returns False and changes no field of any row; one row holds the hash.
C2_DuplicateAddFileIsNoOp ==
    [][\A c \in Callers :
          (Returns(c) /\ file_exists(Table, callst'[c].row.file_hash) # {})
          => /\ callst'[c].ret = FALSE
             /\ files' = files
             /\ file_tracking' = file_tracking
             /\ Cardinality(file_exists(Table', callst'[c].row.file_hash)) = 1]_vars

\* C2 witness: add_file returned False for a hash whose row had already been
\* moved on (failed, one retry counted) and that row is still as it was.
C2_Witness ==
    \E c \in Callers : \E r \in Table :
        /\ callst[c].pc = "returned" /\ ~callst[c].ret
        /\ r.file_hash = callst[c].row.file_hash
        /\ r.status = "failed" /\ r.retry_count = 1
        /\ r.error_message = "boom"

\* C3 (as claimed): every hash is absent at the start; once an add_file call
\* for a hash has returned, exactly one call for that hash has returned True
\* and exactly one row holds the hash.
C3_ExactlyOneWinner ==
    \A c \in Callers :
        callst[c].pc = "returned"
        => /\ created[callst[c].row.file_hash] = 1
           /\ Cardinality(file_exists(Table, callst[c].row.file_hash)) = 1

\* The transition table of the specification, in the status names the two
\* stores use (converting/embedding are 'processing' and completed is
\* 'embedded' in the ETL store).
TransitionTable(cur) ==
    IF program = "etl"
    THEN CASE cur = "pending"    -> {"uploaded", "failed"}
           [] cur = "uploaded"   -> {"processing", "failed"}
           [] cur = "processing" -> {"embedded", "failed"}
           [] cur = "failed"     -> {"pending"}
           [] OTHER              -> {}
    ELSE CASE cur = "pending"    -> {"processing", "failed"}
           [] cur = "processing" -> {"completed", "failed", "pending"}
           [] cur = "failed"     -> {"pending"}
           [] OTHER              -> {}

\* C5 (as claimed): a status update whose (current, target) pair is not in
\* the transition table leaves the stored status unchanged.
C5_OnlyLegalTransitions ==
    [][\A r \in Table : \A r2 \in Table' :
          (r2.file_id = r.file_id /\ r2.status # r.status)
          => r2.status \in TransitionTable(r.status)]_vars

(***************************************************************************)
(* The ETL pipeline: ETLPipeline.process_batch / process_file and          *)
(* ETLService.process_single_file.  Every statement that reads or writes   *)
(* the `files` table is a step of its own, so runs of different workers    *)
(* (processes sharing the database) interleave between them.  A call of an *)
(* external service (SharePoint, blob storage, the embedding model,        *)
(* Qdrant) either returns or raises with some message.                     *)
(***************************************************************************)
FileLists ==
    UNION {[1..n -> Contents] : n \in 1..MaxBatchLen}

InitETL ==
    /\ program = "etl"
    /\ InitTables
    /\ documents = [h \in Hashes |-> OnePageImage]
    /\ sharepoint = [n \in FileIds |-> <<0>>]

\* process_batch that leaves skipped files out of its counters
Tally_SkippedUncounted(me, status) ==
    [me EXCEPT !.results = Append(@, status),
               !.successful = IF status = "success" THEN @ + 1 ELSE @,
               !.failed = IF status = "failed" THEN @ + 1 ELSE @]

\* one file_info has been handled: results.append(...) and the counter of
\* its status (successful, failed or skipped) goes up by one
Tally(me, status) ==
    [me EXCEPT !.results = Append(@, status),
               !.successful = IF status = "success" THEN @ + 1 ELSE @,
               !.failed = IF status = "failed" THEN @ + 1 ELSE @,
               !.skipped = IF status = "skipped" THEN @ + 1 ELSE @]

\* the loop of process_batch moves to the next file_info; after the last one
\* process_batch goes on to update_batch, process_single_file to its return
NextItem(me) ==
    [me EXCEPT
        !.queue = Tail(me.queue),
        !.file_hash = 0, !.file_id = 0,
        !.error = [stage |-> "none", text |-> None],
        !.images = 0, !.embeddings = 0, !.vector_ids = <<>>, !.page_num = 0,
        !.pc = IF Tail(me.queue) # <<>> THEN "item" ELSE "finish"]

\* INSERT INTO processing_batches ... VALUES (?, ?, ?, 0, 0, 'processing')
create_batch(tbl, batch_id, total_files) ==
    tbl \cup {[batch_id |-> batch_id, total_files |-> total_files,
               successful_files |-> 0, failed_files |-> 0,
               status |-> "processing", batch_end_time |-> None]}

\* the status process_batch hands to update_batch, here: completed only
\* when some file succeeded
batch_status_NeedsSuccess(successful, failed) ==
    IF failed = 0 /\ successful > 0 THEN "completed" ELSE "partial"

\* status="completed" if failed == 0 else "partial"
batch_status(successful, failed) ==
    IF failed = 0 THEN "completed" ELSE "partial"

\* UPDATE processing_batches without its WHERE batch_id = ? clause
update_batch_AllRows(tbl, batch_id, successful_files, failed_files, status) ==
    {[b EXCEPT !.batch_end_time = "now",
               !.successful_files = successful_files,
               !.failed_files = failed_files,
               !.status = status] : b \in tbl}

\* UPDATE processing_batches SET batch_end_time = ?, successful_files = ?,
\* failed_files = ?, status = ?, error_summary = ? WHERE batch_id = ?
update_batch(tbl, batch_id, successful_files, failed_files, status) ==
    {IF b.batch_id = batch_id
        THEN [b EXCEPT !.batch_end_time = "now",
                       !.successful_files = successful_files,
                       !.failed_files = failed_files,
                       !.status = status]
        ELSE b : b \in tbl}

\* history: one more run has finished handling content with hash h
RunOver(h, clean) ==
    [hist EXCEPT ![h].runs = @ + 1, ![h].clean = @ /\ clean]

\* a pipeline that logs a page whose embedding failed and goes on with the
\* next page
Raise_EmbedContinues(me, stage, text) ==
    IF stage = "embed"
       THEN [me EXCEPT !.error = [stage |-> stage, text |-> text],
                       !.embeddings = @ + 1,
                       !.pc = IF me.embeddings + 1 = me.images THEN "upsert" ELSE "embed"]
       ELSE [me EXCEPT !.pc = "except", !.error = [stage |-> stage, text |-> text]]

\* an exception raised inside the try block of process_file
Raise(me, stage, text) ==
    [me EXCEPT !.pc = "except", !.error = [stage |-> stage, text |-> text]]

\* ETLPipeline.process_batch is called with file_list and skip_duplicates
process_batch(w, file_list, skip_duplicates, limit) ==
    /\ wk[w].pc = "idle"
    /\ items_started + Len(file_list) <= limit
    /\ Cardinality(processing_batches) < MaxBatches
    /\ LET batch_id == Cardinality(processing_batches) + 1
       IN /\ processing_batches' =
                 create_batch(processing_batches, batch_id, Len(file_list))
          /\ wk' = [wk EXCEPT ![w] =
                [IdleWorker EXCEPT !.pc = "item", !.op = "batch",
                                   !.skip = skip_duplicates, !.queue = file_list,
                                   !.batch_id = batch_id,
                                   !.file_list = file_list,
                                   !.total_files = Len(file_list)]]
    /\ items_started' = items_started + Len(file_list)
    /\ UNCHANGED <<program, registry, startup, deleted, failed_calls, hasher, documents, indexVars, storeVars, next_uuid, callst, created, hist, upVars>>

\* ETLService.process_single_file is called for one SharePoint file
process_single_file(w, content, skip_if_duplicate, limit) ==
    /\ wk[w].pc = "idle"
    /\ items_started + 1 <= limit
    /\ wk' = [wk EXCEPT ![w] =
            [IdleWorker EXCEPT !.pc = "item", !.op = "single",
                               !.skip = skip_if_duplicate, !.queue = <<content>>,
                               !.file_list = <<content>>,
                               !.total_files = 1]]
    /\ items_started' = items_started + 1
    /\ UNCHANGED <<program, registry, startup, deleted, failed_calls, hasher, documents, indexVars, storeVars, next_uuid, callst, created, hist, upVars, processing_batches>>

\* process_batch whose handler for a failed download marks the row of that
\* content 'failed'
item_begin_MarksFailed(w) ==
    /\ wk[w].pc = "item"
    /\ LET me == wk[w]
           h == calculate_hash_from_bytes(Head(me.queue))
           seen == [hist EXCEPT ![h].skip_only = @ /\ me.skip]
       IN \/ /\ wk' = [wk EXCEPT ![w] =
                    IF me.op = "batch" THEN NextItem(Tally(me, "failed"))
                    ELSE [NextItem(me) EXCEPT !.raised = TRUE]]
             /\ hist' = [seen EXCEPT ![h].runs = @ + 1, ![h].clean = FALSE]
             /\ \E text \in ErrorTexts :
                   files' = update_file_status(files, h, "failed", None, text)
             /\ UNCHANGED next_uuid
          \/ /\ me.skip /\ file_exists(files, h) # {}
             /\ wk' = [wk EXCEPT ![w] = NextItem(Tally(me, "skipped"))]
             /\ hist' = [seen EXCEPT ![h].runs = @ + 1]
             /\ UNCHANGED <<files, next_uuid>>
          \/ /\ ~(me.skip /\ file_exists(files, h) # {})
             /\ wk' = [wk EXCEPT ![w].pc = "add_check", ![w].file_hash = h,
                                 ![w].file_id = next_uuid]
             /\ hist' = seen
             /\ next_uuid' = next_uuid + 1
             /\ UNCHANGED files
    /\ UNCHANGED <<program, registry, startup, deleted, failed_calls, hasher, documents, indexVars, file_tracking, callst, created, items_started,
                   upVars, processing_batches>>

\* download, hash, "if skip_duplicates and file_exists(file_hash)", and the
\* first statement of process_file (file_id = uuid4)
item_begin(w) ==
    /\ wk[w].pc = "item"
    /\ LET me == wk[w]
           h == calculate_hash_from_bytes(Head(me.queue))
           seen == [hist EXCEPT ![h].skip_only = @ /\ me.skip]
       IN \/ \* download_from_sharepoint raises: process_batch records a
             \* failed result, process_single_file raises HTTPException
             /\ wk' = [wk EXCEPT ![w] =
                    IF me.op = "batch" THEN NextItem(Tally(me, "failed"))
                    ELSE [NextItem(me) EXCEPT !.raised = TRUE]]
             /\ hist' = [seen EXCEPT ![h].runs = @ + 1, ![h].clean = FALSE]
             /\ UNCHANGED next_uuid
          \/ \* duplicate: skipped
             /\ me.skip /\ file_exists(files, h) # {}
             /\ wk' = [wk EXCEPT ![w] = NextItem(Tally(me, "skipped"))]
             /\ hist' = [seen EXCEPT ![h].runs = @ + 1]
             /\ UNCHANGED next_uuid
          \/ \* process_file is entered
             /\ ~(me.skip /\ file_exists(files, h) # {})
             /\ wk' = [wk EXCEPT ![w].pc = "add_check", ![w].file_hash = h,
                                 ![w].file_id = next_uuid]
             /\ hist' = seen
             /\ next_uuid' = next_uuid + 1
    /\ UNCHANGED <<program, registry, startup, deleted, failed_calls, hasher, documents, indexVars, storeVars, callst, created, items_started, upVars, processing_batches>>

\* process_file STEP 1, add_file: the file_exists check; the result of
\* add_file is not looked at
process_file_add_check(w) ==
    /\ wk[w].pc = "add_check"
    /\ wk' = [wk EXCEPT ![w].pc =
            IF file_exists(files, wk[w].file_hash) # {} THEN "upload" ELSE "add_insert"]
    /\ UNCHANGED <<program, registry, startup, deleted, failed_calls, hasher, documents, indexVars, storeVars, next_uuid, callst, created,
                   items_started, hist, upVars, processing_batches>>

\* process_file STEP 1, add_file: the INSERT
process_file_add_insert(w) ==
    /\ wk[w].pc = "add_insert"
    /\ LET row == NewFileRow(wk[w].file_id, wk[w].file_hash)
       IN files' = IF IntegrityError(files, row) THEN files ELSE files \cup {row}
    /\ wk' = [wk EXCEPT ![w].pc = "upload"]
    /\ UNCHANGED <<program, registry, startup, deleted, failed_calls, hasher, documents, indexVars, file_tracking, next_uuid, callst, created,
                   items_started, hist, upVars, processing_batches>>

\* process_file STEP 2: upload_file, then update_file_status('uploaded')
process_file_upload(w) ==
    /\ wk[w].pc = "upload"
    /\ LET me == wk[w]
       IN /\ hist' = [hist EXCEPT ![me.file_hash].uploads = @ + 1]
          /\ \/ \E text \in ErrorTexts :
                   /\ wk' = [wk EXCEPT ![w] = Raise(me, "upload", text)]
                   /\ UNCHANGED files
             \/ \E url \in BlobUrls :
                   /\ files' = update_file_status(files, me.file_hash, "uploaded", url, None)
                   /\ wk' = [wk EXCEPT ![w].pc = "convert"]
    /\ UNCHANGED <<program, registry, startup, deleted, failed_calls, hasher, documents, indexVars, file_tracking, next_uuid, callst, created,
                   items_started, upVars, processing_batches>>

\* process_file STEP 3: get_processor / processor.process, then
\* update_file_status('processing')
process_file_convert(w) ==
    /\ wk[w].pc = "convert"
    /\ LET me == wk[w]
           doc == documents[me.file_hash]
       IN \/ /\ get_processor(doc.file_type) = None
             /\ wk' = [wk EXCEPT ![w] = Raise(me, "convert", NoProcessorFound)]
             /\ UNCHANGED files
          \/ /\ get_processor(doc.file_type) # None
             /\ \E text \in ErrorTexts :
                   wk' = [wk EXCEPT ![w] = Raise(me, "convert", text)]
             /\ UNCHANGED files
          \/ /\ get_processor(doc.file_type) # None
             /\ files' = update_file_status(files, me.file_hash, "processing", None, None)
             /\ wk' = [wk EXCEPT ![w].images = doc.pages,
                                 ![w].pc = IF doc.pages = 0 THEN "upsert" ELSE "embed"]
    /\ UNCHANGED <<program, registry, startup, deleted, failed_calls, hasher, documents, indexVars, file_tracking, next_uuid, callst, created,
                   items_started, hist, upVars, processing_batches>>

\* process_file STEP 4, one round of `for page_num, image in
\* enumerate(images, 1)`: generate_embedding and embeddings.append
process_file_embed(w) ==
    /\ wk[w].pc = "embed"
    /\ \/ \E text \in ErrorTexts :
            wk' = [wk EXCEPT ![w] = Raise(wk[w], "embed", text)]
       \/ wk' = [wk EXCEPT ![w].embeddings = @ + 1,
                           ![w].pc = IF wk[w].embeddings + 1 = wk[w].images
                                        THEN "upsert" ELSE "embed"]
    /\ UNCHANGED <<program, registry, startup, deleted, failed_calls, hasher, documents, indexVars, storeVars, next_uuid, callst, created,
                   items_started, hist, upVars, processing_batches>>

\* upsert_embeddings: vector_id = str(uuid.uuid4()) for each embedding; the
\* fresh identifier is written as the pair of the run's file_id and the
\* embedding's position
vector_ids(n, document_id) == [i \in 1..n |-> <<document_id, i>>]

\* upsert_embeddings: one client.upsert with a point per embedding;
\* emb.page_number is the page_num generate_embedding was called with
upsert_embeddings(points, n, document_id) ==
    points \cup {[id |-> vector_ids(n, document_id)[i], document_id |-> document_id,
                  page_number |-> i] : i \in 1..n}

\* `for page_num, vector_id in enumerate(vector_ids)`: numbering from 0
enumerate_FromZero(index, start) == index

\* enumerate(vector_ids, 1): the number paired with the element at (0-based)
\* position index
enumerate(index, start) == start + index

\* INSERT INTO embeddings (embedding_id, file_id, page_number, vector_id,
\* ...); embedding_id is a fresh uuid4, written as the row's number
add_embedding(tbl, file_id, page_number, vector_id) ==
    tbl \cup {[embedding_id |-> Cardinality(tbl) + 1, file_id |-> file_id,
               page_number |-> page_number, vector_id |-> vector_id]}

\* process_file STEP 5 and 6: upsert_embeddings, then
\* update_file_status('embedded')
process_file_upsert(w) ==
    /\ wk[w].pc = "upsert"
    /\ LET me == wk[w]
       IN \/ \E text \in ErrorTexts :
                /\ wk' = [wk EXCEPT ![w] = Raise(me, "upsert", text)]
                /\ UNCHANGED <<files, qdrant>>
          \/ /\ qdrant' = upsert_embeddings(qdrant, me.embeddings, me.file_id)
             /\ files' = update_file_status(files, me.file_hash, "embedded", None, None)
             /\ wk' = [wk EXCEPT ![w].vector_ids = vector_ids(me.embeddings, me.file_id),
                                 ![w].pc = "add_embedding"]
    /\ UNCHANGED <<program, registry, startup, deleted, failed_calls, hasher, documents, embeddings, file_tracking,
                   next_uuid, callst, created,
                   items_started, hist, upVars, processing_batches>>

\* process_file STEP 6, one round of `for page_num, vector_id in
\* enumerate(vector_ids, 1)`: add_embedding, whose INSERT can raise
process_file_add_embedding(w) ==
    /\ wk[w].pc = "add_embedding"
    /\ wk[w].page_num < Len(wk[w].vector_ids)
    /\ LET me == wk[w]
       IN \/ /\ \E text \in ErrorTexts :
                   wk' = [wk EXCEPT ![w] = Raise(me, "add_embedding", text)]
             /\ UNCHANGED embeddings
          \/ /\ embeddings' = add_embedding(embeddings, me.file_id,
                                             enumerate(me.page_num, 1),
                                             me.vector_ids[me.page_num + 1])
             /\ wk' = [wk EXCEPT ![w].page_num = @ + 1]
    /\ UNCHANGED <<program, registry, startup, deleted, failed_calls, hasher, documents, qdrant, storeVars, next_uuid,
                   callst, created, items_started, hist, upVars, processing_batches>>

\* process_file after the add_embedding loop: `return {"status":
\* "success", ..., "pages_processed": len(embeddings), ...}`
process_file_success(w) ==
    /\ wk[w].pc = "add_embedding"
    /\ wk[w].page_num = Len(wk[w].vector_ids)
    /\ wk' = [wk EXCEPT ![w] = NextItem(Tally(wk[w], "success"))]
    /\ hist' = RunOver(wk[w].file_hash, FALSE)
    /\ UNCHANGED <<program, registry, startup, deleted, failed_calls, hasher, documents, indexVars, storeVars, next_uuid, callst, created,
                   items_started, upVars, processing_batches>>

\* process_file, `except Exception as e`: update_file_status('failed',
\* error_message=str(e)) and `return {"status": "failed", ...}`
process_file_except(w) ==
    /\ wk[w].pc = "except"
    /\ LET me == wk[w]
       IN /\ files' = update_file_status(files, me.file_hash, "failed", None, me.error.text)
          /\ wk' = [wk EXCEPT ![w] = NextItem(Tally(me, "failed"))]
          /\ hist' = RunOver(me.file_hash,
                             me.error.stage = "embed" /\ Truthy(me.error.text))
    /\ UNCHANGED <<program, registry, startup, deleted, failed_calls, hasher, documents, indexVars, file_tracking, next_uuid, callst, created,
                   items_started, upVars, processing_batches>>

\* process_batch after the loop: update_batch and return of the summary
process_batch_finish(w) ==
    /\ wk[w].pc = "finish"
    /\ wk[w].op = "batch"
    /\ LET me == wk[w]
       IN processing_batches' =
              update_batch(processing_batches, me.batch_id, me.successful,
                           me.failed, batch_status(me.successful, me.failed))
    /\ wk' = [wk EXCEPT ![w].pc = "return"]
    /\ UNCHANGED <<program, registry, startup, deleted, failed_calls, hasher, documents, indexVars, storeVars, next_uuid, callst, created,
                   items_started, hist, upVars>>

\* the call is over: process_batch returns its summary, process_single_file
\* returns ProcessingResult(**result) or has raised HTTPException
process_return(w) ==
    /\ \/ wk[w].pc = "return"
       \/ wk[w].pc = "finish" /\ wk[w].op = "single"
    /\ wk' = [wk EXCEPT ![w] = IdleWorker]
    /\ UNCHANGED <<program, registry, startup, deleted, failed_calls, hasher, documents, indexVars, storeVars, next_uuid, callst, created,
                   items_started, hist, upVars, processing_batches>>

\* the process is killed in the middle of a call
crash(w) ==
    /\ wk[w].pc # "idle"
    /\ wk' = [wk EXCEPT ![w] = IdleWorker]
    /\ UNCHANGED <<program, registry, startup, deleted, failed_calls, hasher, documents, indexVars, storeVars, next_uuid, callst, created,
                   items_started, hist, upVars, processing_batches>>

\* the steps of one worker; `limit` bounds the file_list entries handed in
Run(w, limit) ==
    \/ \E l \in FileLists, s \in BOOLEAN : process_batch(w, l, s, limit)
    \/ \E c \in Contents, s \in BOOLEAN : process_single_file(w, c, s, limit)
    \/ item_begin(w)
    \/ process_file_add_check(w)
    \/ process_file_add_insert(w)
    \/ process_file_upload(w)
    \/ process_file_convert(w)
    \/ process_file_embed(w)
    \/ process_file_upsert(w)
    \/ process_file_add_embedding(w)
    \/ process_file_success(w)
    \/ process_file_except(w)
    \/ process_batch_finish(w)
    \/ process_return(w)

\* one process: calls are served one after the other
NextETL == Run(1, MaxItems)

\* two processes on one database, their steps interleaved
NextRace == \E w \in Workers : Run(w, MaxRaceItems)

SpecRace == InitETL /\ [][NextRace]_vars

SpecETL == InitETL /\ [][NextETL]_vars

\* one process, few files: the bookkeeping of single batch runs
NextBatch == Run(1, MaxBatchLen)

SpecBatch == InitETL /\ [][NextBatch]_vars

\* one process that can be killed and started again
NextCrash == Run(1, MaxCrashItems) \/ crash(1)

SpecCrash == InitETL /\ [][NextCrash]_vars

\* ProcessingConfig.max_retries
max_retries == 3

(***************************************************************************)
(* Claims settled under SpecETL and SpecRace.                              *)
(***************************************************************************)
\* C4 (as claimed): when every run that handled a fingerprint had
\* skip_duplicates=True, at most one run executed the upload stage for it.
C4_ProcessedAtMostOnce ==
    \A h \in Hashes : hist[h].skip_only => hist[h].uploads <= 1

\* C6 (as claimed): a row whose status is 'embedded' keeps that status.
C6_CompletedIsTerminal ==
    [][\A r \in files : \A r2 \in files' :
          (r.status = "embedded" /\ r2.file_id = r.file_id)
          => r2.status = "embedded"]_vars

\* C7 (as claimed): a failed row whose retry_count has reached max_retries
\* keeps its status and its retry_count.
C7_ExhaustedFailedIsTerminal ==
    [][\A r \in files : \A r2 \in files' :
          (r.status = "failed" /\ r.retry_count >= max_retries
             /\ r2.file_id = r.file_id)
          => (r2.status = "failed" /\ r2.retry_count = r.retry_count)]_vars

\* C8 (as claimed): the step that moves a row to 'failed' adds exactly 1 to
\* its retry_count, whatever the message, and a step that leaves a row in a
\* status other than 'failed' does not change its retry_count.
C8_RetryCountedOncePerFailure ==
    [][\A r \in files : \A r2 \in files' :
          r2.file_id = r.file_id
          => /\ (\E w \in Workers :
                    /\ wk[w].pc = "except" /\ wk'[w].pc # "except"
                    /\ wk[w].file_hash = r.file_hash)
                => (r2.status = "failed" /\ r2.retry_count = r.retry_count + 1)
             /\ r2.status # "failed" => r2.retry_count = r.retry_count]_vars

\* C10 (as claimed): for a file whose every attempt so far failed in the
\* embedding stage (with a message), after two runs over it its row is
\* failed with retry_count 2 and is listed by listFailed(3); after three
\* runs retry_count is 3 and it is not listed.
C10_ThreeFailingRuns ==
    \A h \in Hashes :
        hist[h].clean =>
            /\ hist[h].runs = 2 =>
                  \E r \in file_exists(files, h) :
                      /\ r.status = "failed" /\ r.retry_count = 2
                      /\ r \in get_failed_files(files, max_retries)
            /\ hist[h].runs = 3 =>
                  \E r \in file_exists(files, h) :
                      /\ r.status = "failed" /\ r.retry_count = 3
                      /\ r \notin get_failed_files(files, max_retries)

(***************************************************************************)
(* SharePointToBlobUploader over file_tracking.  One uploader process runs *)
(* transfer_files and retry_failed_files one call after another; between   *)
(* its steps the content of a SharePoint file may be replaced.  A row's    *)
(* file_id is "<folder>/<file_name>", so it also stands for the row's      *)
(* file_name and file_path.                                                *)
(***************************************************************************)
\* FileTracker.calculate_file_hash: the digest of the downloaded content
calculate_file_hash(content) == hash_update(0, content)

\* the orders in which a result set without ORDER BY can be returned
Orderings(S) ==
    {q \in [1..Cardinality(S) -> S] : \A i, j \in 1..Cardinality(S) :
                                          q[i] = q[j] => i = j}

\* max_retries arguments of retry_failed_files
RetryLimits == 1..MaxUploaderRuns

InitUploader ==
    /\ program = "uploader"
    /\ InitTables
    /\ documents = [h \in Hashes |-> OnePageImage]
    /\ sharepoint \in [FileIds -> Contents]

\* get_failed_files(self, max_retries: int = 3)
default_max_retries == 3

\* batch sizes of SharePointToBlobUploader.process_batch
BatchSizes == 1..Cardinality(FileIds)

\* the for-loop appends the result of its element and moves to the next
\* one; after the last one transfer_files returns to process_batch (which
\* goes on to its next batch) or to its caller, retry_failed_files returns
NextSharePointFile(pc, status) ==
    LET done == [up EXCEPT
                    !.results = Append(@, [file_id |-> Head(up.queue).file_id,
                                           status |-> status]),
                    !.queue = Tail(@), !.file_hash = 0, !.fresh = FALSE]
    IN  IF done.queue # <<>> THEN [done EXCEPT !.pc = pc]
        ELSE IF up.op = "batch" /\ up.batch_num < up.total_batches
                THEN [done EXCEPT !.pc = "list"]
                ELSE [done EXCEPT !.pc = "return"]

\* a user replaces the content of a SharePoint file
sharepoint_modify(name, content) ==
    /\ program = "uploader"
    /\ sharepoint[name] # content
    /\ sharepoint' = [sharepoint EXCEPT ![name] = content]
    /\ UNCHANGED <<program, registry, startup, deleted, failed_calls, hasher, documents, indexVars, storeVars, next_uuid, callst, created,
                   wk, items_started, hist, up, up_runs, processing_batches>>

\* transfer_files: list_sharepoint_files
transfer_files(skip_duplicates) ==
    /\ program = "uploader"
    /\ up.pc = "idle"
    /\ up_runs < MaxUploaderRuns
    /\ up_runs' = up_runs + 1
    /\ \E q \in Orderings(FileIds) :
          up' = [IdleUploader EXCEPT
                     !.pc = "transfer", !.op = "transfer",
                     !.skip = skip_duplicates, !.sp_files = q,
                     !.queue = [i \in 1..Len(q) |->
                                   [file_id |-> q[i], file_hash |-> 0]]]
    /\ UNCHANGED <<program, registry, startup, deleted, failed_calls, hasher, documents, indexVars, storeVars, next_uuid, callst, created,
                   wk, items_started, hist, sharepoint, processing_batches>>

\* transfer_files, one sp_file: download, hash, duplicate check, add_file,
\* update_status(processing)
transfer_files_begin ==
    /\ program = "uploader"
    /\ up.pc = "transfer"
    /\ LET file_id == Head(up.queue).file_id
           file_hash == calculate_file_hash(sharepoint[file_id])
           row == NewFileRow(file_id, file_hash)
           added == IF file_exists(file_tracking, file_hash) # {}
                       \/ IntegrityError(file_tracking, row)
                        THEN file_tracking
                        ELSE file_tracking \cup {row}
       IN  \/ \* download_sharepoint_file raises: file_hash is still None
              /\ up' = NextSharePointFile("transfer", "failed")
              /\ UNCHANGED file_tracking
           \/ \* skipped as a duplicate
              /\ up.skip
              /\ file_exists(file_tracking, file_hash) # {}
              /\ up' = NextSharePointFile("transfer", "skipped")
              /\ UNCHANGED file_tracking
           \/ \* update_status('processing') raises sqlite3.OperationalError;
              \* the handler's update_status('failed') goes through
              /\ ~(up.skip /\ file_exists(file_tracking, file_hash) # {})
              /\ \E error_msg \in ErrorTexts :
                    file_tracking' =
                        update_status(added, file_hash, "failed", None, error_msg)
              /\ up' = NextSharePointFile("transfer", "failed")
           \/ \* ... and the handler's update_status('failed') raises as
              \* well: the exception leaves the loop, transfer_files re-raises
              /\ ~(up.skip /\ file_exists(file_tracking, file_hash) # {})
              /\ file_tracking' = added
              /\ up' = [up EXCEPT !.pc = "raise", !.fresh = FALSE]
           \/ /\ ~(up.skip /\ file_exists(file_tracking, file_hash) # {})
              /\ file_tracking' =
                     update_status(added, file_hash, "processing", None, None)
              /\ up' = [up EXCEPT !.pc = "transfer_upload",
                                  !.file_hash = file_hash, !.fresh = FALSE]
    /\ UNCHANGED <<program, registry, startup, deleted, failed_calls, hasher, documents, indexVars, files, next_uuid, callst, created,
                   wk, items_started, hist, sharepoint, up_runs, processing_batches>>

\* transfer_files, one sp_file: upload_to_blob, then completed or failed
transfer_files_upload ==
    /\ program = "uploader"
    /\ up.pc = "transfer_upload"
    /\ \/ /\ \E blob_url \in BlobUrls :
                file_tracking' = update_status(file_tracking, up.file_hash,
                                               "completed", blob_url, None)
          /\ up' = NextSharePointFile("transfer", "success")
       \/ /\ \E error_msg \in ErrorTexts :
                file_tracking' = update_status(file_tracking, up.file_hash,
                                               "failed", None, error_msg)
          /\ up' = NextSharePointFile("transfer", "failed")
       \/ \* the handler's update_status('failed') raises
          \* sqlite3.OperationalError: transfer_files re-raises
          /\ UNCHANGED file_tracking
          /\ up' = [up EXCEPT !.pc = "raise"]
    /\ UNCHANGED <<program, registry, startup, deleted, failed_calls, hasher, documents, indexVars, files, next_uuid, callst, created,
                   wk, items_started, hist, sharepoint, up_runs, processing_batches>>

\* retry_failed_files: failed_files = tracker.get_failed_files(max_retries)
retry_failed_files(limit) ==
    /\ program = "uploader"
    /\ up.pc = "idle"
    /\ up_runs < MaxUploaderRuns
    /\ up_runs' = up_runs + 1
    /\ LET failed_files == get_failed_files(file_tracking, limit)
       IN  \E q \in Orderings(failed_files) :
              up' = [IdleUploader EXCEPT
                         !.pc = IF failed_files = {} THEN "return" ELSE "retry",
                         !.op = "retry", !.limit = limit,
                         !.listed = failed_files, !.fresh = TRUE,
                         !.queue = [i \in 1..Len(q) |->
                                       [file_id |-> q[i].file_id,
                                        file_hash |-> q[i].file_hash]]]
    /\ UNCHANGED <<program, registry, startup, deleted, failed_calls, hasher, documents, indexVars, storeVars, next_uuid, callst, created,
                   wk, items_started, hist, sharepoint, processing_batches>>

\* retry_failed_files, one failed_file: download, hash the downloaded
\* content, update_status(processing) under that hash
retry_failed_files_begin ==
    /\ program = "uploader"
    /\ up.pc = "retry"
    /\ LET failed_file == Head(up.queue)
           file_hash == calculate_file_hash(sharepoint[failed_file.file_id])
       IN  \/ \* download raises: failed under the recorded hash
              /\ \E error_msg \in ErrorTexts :
                    file_tracking' =
                        update_status(file_tracking, failed_file.file_hash,
                                      "failed", None, error_msg)
              /\ up' = NextSharePointFile("retry", "failed")
           \/ /\ file_tracking' = update_status(file_tracking, file_hash,
                                                "processing", None, None)
              /\ up' = [up EXCEPT !.pc = "retry_upload",
                                  !.file_hash = file_hash, !.fresh = FALSE]
    /\ UNCHANGED <<program, registry, startup, deleted, failed_calls, hasher, documents, indexVars, files, next_uuid, callst, created,
                   wk, items_started, hist, sharepoint, up_runs, processing_batches>>

\* retry_failed_files, one failed_file: upload_to_blob, then completed under
\* the downloaded hash or failed under the recorded one
retry_failed_files_upload ==
    /\ program = "uploader"
    /\ up.pc = "retry_upload"
    /\ \/ /\ \E blob_url \in BlobUrls :
                file_tracking' = update_status(file_tracking, up.file_hash,
                                               "completed", blob_url, None)
          /\ up' = NextSharePointFile("retry", "success")
       \/ /\ \E error_msg \in ErrorTexts :
                file_tracking' =
                    update_status(file_tracking, Head(up.queue).file_hash,
                                  "failed", None, error_msg)
          /\ up' = NextSharePointFile("retry", "failed")
    /\ UNCHANGED <<program, registry, startup, deleted, failed_calls, hasher, documents, indexVars, files, next_uuid, callst, created,
                   wk, items_started, hist, sharepoint, up_runs, processing_batches>>

\* SharePointToBlobUploader.process_batch up to its loop:
\* reset_processing_files, get_pending_files, get_failed_files
SharePointToBlobUploader_process_batch(batch_size, resume_failed) ==
    /\ program = "uploader"
    /\ up.pc = "idle"
    /\ up_runs < MaxUploaderRuns
    /\ up_runs' = up_runs + 1
    /\ file_tracking' = reset_processing_files(file_tracking)
    /\ LET pending_files == get_pending_files(file_tracking')
           failed_files == IF resume_failed
                               THEN get_failed_files(file_tracking',
                                                     default_max_retries)
                               ELSE {}
           all_files == pending_files \cup failed_files
           n == Cardinality(all_files)
       IN  up' = [IdleUploader EXCEPT
                      !.pc = IF all_files = {} THEN "return" ELSE "list",
                      !.op = "batch",
                      !.updated = Cardinality(
                          {r \in file_tracking : r.status = "processing"}),
                      !.all_files = all_files,
                      !.batch_size = batch_size,
                      !.total_batches = (n + batch_size - 1) \div batch_size]
    /\ UNCHANGED <<program, registry, startup, deleted, failed_calls, hasher, documents, indexVars, files, next_uuid, callst, created,
                   wk, items_started, hist, sharepoint, processing_batches>>

\* process_batch, one batch: transfer_files(sharepoint_folder_path,
\* skip_duplicates=True) lists the folder
process_batch_transfer_files ==
    /\ program = "uploader"
    /\ up.pc = "list"
    /\ \E q \in Orderings(FileIds) :
          up' = [up EXCEPT
                     !.pc = "transfer", !.skip = TRUE, !.sp_files = q,
                     !.batch_num = @ + 1,
                     !.queue = [i \in 1..Len(q) |->
                                   [file_id |-> q[i], file_hash |-> 0]]]
    /\ UNCHANGED <<program, registry, startup, deleted, failed_calls, hasher, documents, indexVars, storeVars, next_uuid, callst, created,
                   wk, items_started, hist, sharepoint, up_runs,
                   processing_batches>>

\* the call returns its results, or ends with the exception it raised
uploader_return ==
    /\ program = "uploader"
    /\ up.pc \in {"return", "raise"}
    /\ up' = IdleUploader
    /\ UNCHANGED <<program, registry, startup, deleted, failed_calls, hasher, documents, indexVars, storeVars, next_uuid, callst, created,
                   wk, items_started, hist, sharepoint, up_runs,
                   processing_batches>>

\* the uploader process is killed in the middle of a call
uploader_crash ==
    /\ program = "uploader"
    /\ up.pc \notin {"idle", "return", "raise"}
    /\ up' = IdleUploader
    /\ UNCHANGED <<program, registry, startup, deleted, failed_calls, hasher, documents, indexVars, storeVars, next_uuid, callst, created,
                   wk, items_started, hist, sharepoint, up_runs,
                   processing_batches>>

NextUploader ==
    \/ \E name \in FileIds, content \in Contents :
          sharepoint_modify(name, content)
    \/ \E skip_duplicates \in BOOLEAN : transfer_files(skip_duplicates)
    \/ transfer_files_begin
    \/ transfer_files_upload
    \/ \E limit \in RetryLimits : retry_failed_files(limit)
    \/ retry_failed_files_begin
    \/ retry_failed_files_upload
    \/ \E batch_size \in BatchSizes, resume_failed \in BOOLEAN :
          SharePointToBlobUploader_process_batch(batch_size, resume_failed)
    \/ process_batch_transfer_files
    \/ uploader_return
    \/ uploader_crash

SpecUploader == InitUploader /\ [][NextUploader]_vars

(***************************************************************************)
(* Claims about the uploader                                               *)
(***************************************************************************)
\* C9: the list retry_failed_files obtains from get_failed_files(n) holds
\* exactly the rows of file_tracking that are failed with retry_count < n:
\* every such row, no row at or above the limit, no row in another status.
C9_ListFailedExact ==
    up.fresh =>
        /\ up.listed \subseteq file_tracking
        /\ \A r \in file_tracking :
              r \in up.listed <=>
                  (r.status = "failed" /\ r.retry_count < up.limit)

\* C9 witness: a listing that returned one failed row while another failed
\* row, at the limit, stayed out of it
C9_Witness ==
    /\ up.fresh
    /\ up.listed # {}
    /\ \E r \in file_tracking :
          r.status = "failed" /\ r.retry_count = up.limit /\ r \notin up.listed

(***************************************************************************)
(* Claims about crash recovery and batch runs                              *)
(***************************************************************************)
\* C11: the reset_processing_files call at the start of the uploader's
\* process_batch turns every 'processing' row into a 'pending' row, leaves
\* the status of every other row and every other field of every row as it
\* was, adds and removes no row, and a second call would change nothing.
C11_ResetOrphanedFrame ==
    [][(up.pc = "idle" /\ up'.op = "batch") =>
          /\ \A r \in file_tracking :
                [r EXCEPT !.status = IF @ = "processing" THEN "pending" ELSE @]
                    \in file_tracking'
          /\ Cardinality(file_tracking') = Cardinality(file_tracking)
          /\ reset_processing_files(file_tracking') = file_tracking']_vars

\* C11 witness: the reset has just moved a 'processing' row while the table
\* also holds a failed row with a counted retry
C11_Witness ==
    /\ up.op = "batch" /\ up.batch_num = 0 /\ up.pc \in {"list", "return"}
    /\ up.updated > 0
    /\ \E r \in file_tracking : r.status = "failed" /\ r.retry_count > 0

\* C12 (as claimed): when a batch run of the ETL pipeline is about to handle
\* its first file, no row is in 'processing' (rows left there by a killed
\* earlier run have been reset).
C12_NoOrphanAtFirstFile ==
    \A w \in Workers :
        (wk[w].op = "batch" /\ wk[w].pc = "item" /\ wk[w].results = <<>>)
        => \A r \in files : r.status # "processing"

\* C13: in every batch run of the ETL pipeline the three counters account
\* for every file of file_list: while the loop runs, successful + failed +
\* skipped plus the files still to come is len(file_list); in the summary
\* process_batch returns, successful + failed + skipped == total_files ==
\* len(file_list), which is also the total_files of the stored batch row.
C13_BatchCountsAddUp ==
    \A w \in Workers :
        LET me == wk[w]
            counted == me.successful + me.failed + me.skipped
        IN  me.op = "batch" =>
              /\ me.pc = "item" => counted + Len(me.queue) = me.total_files
              /\ me.pc \in {"finish", "return"} =>
                    /\ counted = me.total_files
                    /\ Len(me.results) = me.total_files
                    /\ \E b \in processing_batches :
                          b.batch_id = me.batch_id /\ b.total_files = counted

\* C13 witness: a batch of three files returns with one file successful, one
\* failed and one skipped as a pre-existing duplicate
C13_Witness ==
    \E w \in Workers :
        /\ wk[w].op = "batch" /\ wk[w].pc = "return"
        /\ wk[w].total_files = 3
        /\ wk[w].successful = 1 /\ wk[w].failed = 1 /\ wk[w].skipped = 1

\* the number of results with a given status
CountStatus(results, status) ==
    Cardinality({i \in 1..Len(results) : results[i] = status})

\* C14: when process_batch has run update_batch, the stored batch row has
\* status 'partial' if and only if some file of the run failed and
\* 'completed' otherwise (also when every file was skipped), carries the
\* run's counts, and has its batch_end_time set.
C14_BatchStatusPartialIffFailed ==
    \A w \in Workers :
        (wk[w].op = "batch" /\ wk[w].pc = "return") =>
            \E b \in processing_batches :
                /\ b.batch_id = wk[w].batch_id
                /\ b.status = "partial" <=> CountStatus(wk[w].results, "failed") > 0
                /\ b.status = "completed" <=> CountStatus(wk[w].results, "failed") = 0
                /\ b.failed_files = CountStatus(wk[w].results, "failed")
                /\ b.successful_files = CountStatus(wk[w].results, "success")
                /\ b.batch_end_time # None

\* C14 witness: a batch in which every file was skipped has been stored as
\* 'completed', next to an earlier batch stored as 'partial'
C14_Witness ==
    \E w \in Workers :
        /\ wk[w].op = "batch" /\ wk[w].pc = "return"
        /\ wk[w].skipped = wk[w].total_files
        /\ \E b \in processing_batches :
              b.batch_id = wk[w].batch_id /\ b.status = "completed"
        /\ \E b \in processing_batches : b.status = "partial"

\* C15: a batch [A, B, A'] with A' byte-identical to A and B different, run
\* with skip_duplicates=True as the first call on an empty store and with no
\* download or stage failing, ends with results [success, success,
\* skipped] and counters successful = 2, skipped = 1, failed = 0.
C15_DuplicateInsideBatch ==
    \A w \in Workers :
        LET me == wk[w]
        IN  ( /\ me.op = "batch" /\ me.pc \in {"finish", "return"}
              /\ me.skip
              /\ Len(me.file_list) = 3
              /\ me.file_list[3] = me.file_list[1]
              /\ me.file_list[2] # me.file_list[1]
              /\ items_started = Len(me.file_list)
              /\ CountStatus(me.results, "failed") = 0 )
            => /\ me.results = <<"success", "success", "skipped">>
               /\ me.successful = 2 /\ me.skipped = 1 /\ me.failed = 0

\* C15 witness: such a batch has returned
C15_Witness ==
    \E w \in Workers :
        /\ wk[w].op = "batch" /\ wk[w].pc = "return" /\ wk[w].skip
        /\ wk[w].file_list = << <<0>>, <<1>>, <<0>> >>
        /\ items_started = 3
        /\ wk[w].results = <<"success", "success", "skipped">>

\* C16 (as claimed): a transfer_files call over the listed files never ends
\* by raising: whatever fails on a file (the download, the upload, a status
\* write), it returns a result list with exactly one entry per listed file,
\* in the order of the listing.
C16_OneResultPerFile ==
    (up.op = "transfer" /\ up.pc \in {"return", "raise"}) =>
        /\ up.pc = "return"
        /\ Len(up.results) = Len(up.sp_files)
        /\ \A i \in 1..Len(up.results) : up.results[i].file_id = up.sp_files[i]

\* C17 (as claimed): a process_single_file call ends by returning one result
\* (success, failed or skipped) and never by raising, whichever step failed
\* for its file.
C17_ProcessFileNeverRaises ==
    \A w \in Workers :
        (wk[w].op = "single" /\ wk[w].pc = "finish") =>
            /\ ~wk[w].raised
            /\ wk[w].results \in {<<"success">>, <<"failed">>, <<"skipped">>}

C19_RegistrationDuplicateIsNoOp ==
    [][\A w \in Workers :
          LET me == wk[w]
              found ==
                 \/ me.pc = "add_check" /\ file_exists(files, me.file_hash) # {}
                 \/ /\ me.pc = "add_insert"
                    /\ IntegrityError(files, NewFileRow(me.file_id, me.file_hash))
          IN  (found /\ wk'[w] # me) =>
                 /\ wk'[w].pc \in {"item", "finish"}
                 /\ wk'[w].results = Append(me.results, "skipped")
                 /\ files' = files]_vars

\* the position of an ETL status in the stage order of process_file
StageRank(status) ==
    CASE status = "pending"    -> 0
      [] status = "uploaded"   -> 1
      [] status = "processing" -> 2
      [] status = "embedded"   -> 3
      [] OTHER                 -> 4

\* C20 (as claimed): every change of a row's status during a pipeline run
\* is one step forward in the stage order (pending, uploaded, processing,
\* embedded) or a step to 'failed' from a stage before 'embedded'; and a
\* stage's external call starts only when the row shows the status written
\* by the stage before it.
C20_StagesStrictlyOrdered ==
    [][/\ \A r \in files : \A r2 \in files' :
             (r2.file_id = r.file_id /\ r2.status # r.status) =>
                 \/ StageRank(r2.status) = StageRank(r.status) + 1
                 \/ r2.status = "failed" /\ StageRank(r.status) < 3
       /\ \A w \in Workers : \A r \in file_exists(files, wk[w].file_hash) :
             /\ wk[w].pc = "convert" => r.status = "uploaded"
             /\ wk[w].pc \in {"embed", "upsert"} => r.status = "processing"
             /\ wk[w].pc = "add_embedding" => r.status = "embedded"]_vars

(***************************************************************************)
(* Claims about batch rows, resumed runs, statistics and hashing           *)
(***************************************************************************)
\* C26: a row of processing_batches is created by process_batch with
\* total_files = len(file_list) and both counts 0; no row is ever removed;
\* total_files never changes; a row is written only by the update_batch of
\* its own run, after the last file of the run has been handled, and once
\* its batch_end_time is set it is never modified again.
C26_BatchRowLifecycle ==
    [][/\ \A b \in processing_batches :
             \E b2 \in processing_batches' :
                /\ b2.batch_id = b.batch_id
                /\ b2.total_files = b.total_files
                /\ b.batch_end_time # None => b2 = b
                /\ b2 # b =>
                      \E w \in Workers :
                         /\ wk[w].batch_id = b.batch_id
                         /\ wk[w].pc = "finish" /\ wk[w].queue = <<>>
                         /\ Len(wk[w].results) = b.total_files
       /\ \A b2 \in processing_batches' :
             (\A b \in processing_batches : b.batch_id # b2.batch_id) =>
                /\ b2.successful_files = 0 /\ b2.failed_files = 0
                /\ b2.batch_end_time = None
                /\ \E w \in Workers :
                      /\ wk'[w].batch_id = b2.batch_id
                      /\ b2.total_files = Len(wk'[w].file_list)]_vars

\* C26 witness: a second batch has been closed by update_batch while the
\* closed row of an earlier batch, with a failure counted, is still stored
C26_Witness ==
    \E w \in Workers :
        /\ wk[w].op = "batch" /\ wk[w].pc = "return"
        /\ \E b \in processing_batches :
              /\ b.batch_id # wk[w].batch_id
              /\ b.batch_end_time # None
              /\ b.failed_files > 0
        /\ \E b \in processing_batches :
              b.batch_id = wk[w].batch_id /\ b.successful_files > 0

\* C29 (as claimed): in a batch run of the uploader no file whose row was in
\* the work set at the start of the run (pending, or failed below the retry
\* limit) is skipped as a duplicate: its transfer is executed again.
C29_ResumeRetriesUnfinished ==
    up.op = "batch" =>
        \A i \in 1..Len(up.results) :
            up.results[i].status = "skipped" =>
                \A r \in up.all_files : r.file_id # up.results[i].file_id


\* get_statistics, the query "SELECT status, COUNT(*) ... GROUP BY status":
\* one entry per status that has rows
count_by_status_AllStatuses(tbl) ==
    [s \in {r.status : r \in tbl} |-> Cardinality(tbl)]

count_by_status(tbl) ==
    [s \in {r.status : r \in tbl} |-> Cardinality({r \in tbl : r.status = s})]

RECURSIVE SumCounts(_, _)
SumCounts(by_status, statuses) ==
    IF statuses = {} THEN 0
    ELSE LET s == CHOOSE x \in statuses : TRUE
         IN by_status[s] + SumCounts(by_status, statuses \ {s})

\* SQLiteMetadataStore.get_statistics()["files"]
MetadataStore_get_statistics(tbl) == count_by_status(tbl)

\* FileTracker.get_statistics: stats["total"] += count for each group
FileTracker_get_statistics(tbl) ==
    LET by_status == count_by_status(tbl)
    IN [total |-> SumCounts(by_status, DOMAIN by_status), by_status |-> by_status]

\* the file hashes for which some add_file call returned True
Registered == {h \in Hashes : created[h] >= 1}

\* C27: in every reachable state the per-status file counts get_statistics
\* returns sum to the number of distinct file hashes ever registered, and
\* the 'total' of FileTracker.get_statistics is that sum.
C27_StatisticsSumToRegistered ==
    /\ program = "etl" =>
          LET st == MetadataStore_get_statistics(files)
          IN SumCounts(st, DOMAIN st) = Cardinality(Registered)
    /\ program = "uploader" =>
          LET st == FileTracker_get_statistics(file_tracking)
          IN /\ st.total = Cardinality(Registered)
             /\ st.total = SumCounts(st.by_status, DOMAIN st.by_status)

C27_Witness ==
    /\ Cardinality(Registered) = 2
    /\ Cardinality({r.status : r \in Table}) = 2
    /\ \E r \in Table : r.status = "failed" /\ r.retry_count > 0


(***************************************************************************)
(* Concurrent failures: the except handlers of several pipeline runs write *)
(* 'failed' with error_message=str(e) on rows that add_file registered,    *)
(* in any order.                                                           *)
(***************************************************************************)
\* history: a status write 'failed' on the row of h has been committed
failed_write(tbl, h) ==
    IF file_exists(tbl, h) # {}
       THEN [failed_calls EXCEPT ![h] = @ + 1]
       ELSE failed_calls

\* ETLPipeline.process_file, except handler:
\* update_file_status(file_hash, 'failed', error_message=str(e))
MetadataStore_transition_failed(h, text) ==
    /\ program = "etl"
    /\ failed_calls[h] < MaxFailedCalls
    /\ files' = update_file_status(files, h, "failed", None, text)
    /\ failed_calls' = failed_write(files, h)
    /\ UNCHANGED <<program, registry, startup, deleted, hasher, documents, indexVars, file_tracking, next_uuid, callst,
                   created, pipeVars>>

\* transfer_files / retry_failed_files, except handler:
\* update_status(file_hash, 'failed', error_message=str(e))
FileTracker_transition_failed(h, text) ==
    /\ program = "uploader"
    /\ failed_calls[h] < MaxFailedCalls
    /\ file_tracking' = update_status(file_tracking, h, "failed", None, text)
    /\ failed_calls' = failed_write(file_tracking, h)
    /\ UNCHANGED <<program, registry, startup, deleted, hasher, documents, indexVars, files, next_uuid, callst,
                   created, pipeVars>>

NextFailures ==
    \/ \E c \in Callers, h \in Hashes : MetadataStore_add_file_check(c, h)
    \/ \E c \in Callers : MetadataStore_add_file_insert(c)
    \/ \E c \in Callers, id \in FileIds, h \in Hashes :
            FileTracker_add_file_check(c, id, h)
    \/ \E c \in Callers : FileTracker_add_file_insert(c)
    \/ \E h \in Hashes, text \in ErrorTexts : MetadataStore_transition_failed(h, text)
    \/ \E h \in Hashes, text \in ErrorTexts : FileTracker_transition_failed(h, text)

SpecFailures == InitStore /\ [][NextFailures]_vars

\* C28 (as claimed): retry-count increments are never lost: after k status
\* writes 'failed' on one row, made by concurrent callers in any order, the
\* row's retry_count is exactly k higher than the 0 it was registered with.
C28_NoLostRetryIncrement ==
    \A r \in Table : r.retry_count = failed_calls[r.file_hash]


(***************************************************************************)
(* File hashing: FileHasher (ETL) and FileTracker.calculate_file_hash.     *)
(* The digest state hash_func is fed by hash_update, chunk by chunk.       *)
(***************************************************************************)
\* length of the files hashed
MaxFileLen == 3
\* chunk_size arguments tried besides the default
MaxChunkSize == 3

\* calculate_hash(file_path, algorithm="sha256", chunk_size=8192)
default_chunk_size == 8192
\* calculate_file_hash: f.read(8192)
tracker_chunk_size == 8192

ByteStrings == UNION {[1..n -> {0, 1}] : n \in 0..MaxFileLen}
ChunkSizes == (1..MaxChunkSize) \cup {default_chunk_size}

\* a read that returns nothing when fewer than chunk_size bytes are left
read_ShortIsEnd(data, pos, chunk_size) ==
    IF pos + chunk_size > Len(data) THEN <<>>
    ELSE SubSeq(data, pos + 1, pos + chunk_size)

\* f.read(chunk_size) at offset pos: up to chunk_size bytes, b"" at the end
read(data, pos, chunk_size) ==
    SubSeq(data, pos + 1,
           IF pos + chunk_size < Len(data) THEN pos + chunk_size ELSE Len(data))

InitHasher ==
    /\ program = "etl"
    /\ InitTables
    /\ documents = [h \in Hashes |-> OnePageImage]
    /\ sharepoint = [n \in FileIds |-> <<0>>]

\* hash_func = hashlib.new(algorithm); the call before this one is kept as
\* history
hasher_call(op, data, chunk_size) ==
    /\ hasher.pc \in {"idle", "returned"}
    /\ hasher' = [pc |-> IF op = "calculate_hash_from_bytes" THEN "update" ELSE "read",
                  op |-> op, data |-> data, chunk_size |-> chunk_size,
                  pos |-> 0, hash_func |-> 0, digest |-> 0,
                  prev |-> IF hasher.pc = "returned"
                              THEN [seen |-> TRUE, op |-> hasher.op,
                                    data |-> hasher.data, digest |-> hasher.digest]
                              ELSE hasher.prev]
    /\ UNCHANGED <<program, registry, startup, deleted, failed_calls, documents, indexVars, storeVars, next_uuid, callst,
                   created, pipeVars>>

FileHasher_calculate_hash(data, chunk_size) ==
    hasher_call("calculate_hash", data, chunk_size)

FileHasher_calculate_hash_from_bytes(data) ==
    hasher_call("calculate_hash_from_bytes", data, 0)

FileTracker_calculate_file_hash(data) ==
    hasher_call("calculate_file_hash", data, tracker_chunk_size)

\* one round of `for chunk in iter(lambda: f.read(chunk_size), b"")`:
\* hash_func.update(chunk), or the end of the loop on b""
hasher_read ==
    /\ hasher.pc = "read"
    /\ LET chunk == read(hasher.data, hasher.pos, hasher.chunk_size)
       IN hasher' = IF chunk = <<>>
                       THEN [hasher EXCEPT !.pc = "hexdigest"]
                       ELSE [hasher EXCEPT !.hash_func = hash_update(@, chunk),
                                           !.pos = @ + Len(chunk)]
    /\ UNCHANGED <<program, registry, startup, deleted, failed_calls, documents, indexVars, storeVars, next_uuid, callst,
                   created, pipeVars>>

\* calculate_hash_from_bytes: hash_func.update(data)
hasher_update ==
    /\ hasher.pc = "update"
    /\ hasher' = [hasher EXCEPT !.hash_func = hash_update(@, hasher.data),
                                !.pc = "hexdigest"]
    /\ UNCHANGED <<program, registry, startup, deleted, failed_calls, documents, indexVars, storeVars, next_uuid, callst,
                   created, pipeVars>>

\* return hash_func.hexdigest()
hasher_hexdigest ==
    /\ hasher.pc = "hexdigest"
    /\ hasher' = [hasher EXCEPT !.digest = hasher.hash_func, !.pc = "returned"]
    /\ UNCHANGED <<program, registry, startup, deleted, failed_calls, documents, indexVars, storeVars, next_uuid, callst,
                   created, pipeVars>>

NextHasher ==
    \/ \E d \in ByteStrings, c \in ChunkSizes : FileHasher_calculate_hash(d, c)
    \/ \E d \in ByteStrings : FileHasher_calculate_hash_from_bytes(d)
    \/ \E d \in ByteStrings : FileTracker_calculate_file_hash(d)
    \/ hasher_read
    \/ hasher_update
    \/ hasher_hexdigest

SpecHasher == InitHasher /\ [][NextHasher]_vars

\* C30: the digest does not depend on how the content is read: a call of
\* calculate_hash (any chunk size >= 1) or calculate_file_hash returns what
\* calculate_hash_from_bytes returns for the whole content, and two calls on
\* identical content return the same digest.
C30_HashChunkingIndependent ==
    hasher.pc = "returned" =>
        /\ hasher.digest = calculate_hash_from_bytes(hasher.data)
        /\ (hasher.prev.seen /\ hasher.prev.data = hasher.data)
              => hasher.prev.digest = hasher.digest

C30_Witness ==
    /\ hasher.pc = "returned" /\ hasher.op = "calculate_hash"
    /\ hasher.chunk_size = 2 /\ Len(hasher.data) = 3
    /\ hasher.prev.seen /\ hasher.prev.op = "calculate_hash_from_bytes"
    /\ hasher.prev.data = hasher.data


(***************************************************************************)
(* Documents of several kinds: a PDF converts to any number of pages       *)
(* (convert_from_path can return an empty list) and a file of another type *)
(* has no processor; an image behaves as a one-page PDF does.              *)
(***************************************************************************)
\* pages of a PDF
MaxPages == 2
\* file_list entries handed to the pipeline
MaxPageItems == 2

Documents ==
    {[file_type |-> ".pdf", pages |-> n] : n \in 0..MaxPages}
        \cup {[file_type |-> ".txt", pages |-> 0]}

InitPages ==
    /\ program = "etl"
    /\ InitTables
    /\ documents \in [Hashes -> Documents]
    \* the contents are interchangeable: one order of each pair is enough
    /\ \A h1, h2 \in Hashes : h1 < h2 => documents[h1].pages <= documents[h2].pages
    /\ sharepoint = [n \in FileIds |-> <<0>>]

NextPages == Run(1, MaxPageItems)

SpecPages == InitPages /\ [][NextPages]_vars


(***************************************************************************)
(* Claims about pages, vectors and embedding rows, settled under SpecPages *)
(***************************************************************************)
\* the rows of table embeddings that belong to file_id
get_file_embeddings(file_id) == {e \in embeddings : e.file_id = file_id}

\* C21: in every reachable state the page_number values of the embedding
\* rows of one file_id are 1..k without gap or repeat, and every embedding
\* row refers to a vector that is already in the Qdrant collection.
C21_PagesContiguousAfterUpsert ==
    /\ \A id \in {e.file_id : e \in embeddings} :
          {e.page_number : e \in get_file_embeddings(id)}
              = 1..Cardinality(get_file_embeddings(id))
    /\ \A e \in embeddings :
          \E p \in qdrant : /\ p.id = e.vector_id
                            /\ p.document_id = e.file_id
                            /\ p.page_number = e.page_number

C21_Witness ==
    \E w \in Workers :
        /\ wk[w].pc = "except" /\ wk[w].error.stage = "add_embedding"
        /\ wk[w].page_num = 1 /\ Len(wk[w].vector_ids) = 2
        /\ \E e \in embeddings :
              e.file_id # wk[w].file_id /\ e.page_number = 2

\* C22 (as claimed): in every reachable state a row of files in status
\* 'embedded' has exactly one embedding row per page of the file.
C22_EmbeddedHasRowPerPage ==
    \A r \in files :
        r.status = "embedded" =>
            /\ Cardinality(get_file_embeddings(r.file_id)) = documents[r.file_hash].pages
            /\ {e.page_number : e \in get_file_embeddings(r.file_id)}
                   = 1..documents[r.file_hash].pages

\* C23: when generate_embedding fails for page i, the run is in the except
\* handler with pages 1..i-1 embedded and no later page, no vector and no
\* embedding row of this run exists, and the handler's step leaves the row
\* 'failed', reports the file as failed and writes neither vectors nor
\* embedding rows.
C23_EmbedFailureAborts ==
    [][\A w \in Workers :
          wk[w].error.stage = "embed" =>
             /\ wk[w].pc = "except"
             /\ wk[w].embeddings < wk[w].images
             /\ \A p \in qdrant : p.document_id # wk[w].file_id
             /\ get_file_embeddings(wk[w].file_id) = {}
             /\ wk'[w] # wk[w] =>
                   /\ \A r \in file_exists(files', wk[w].file_hash) : r.status = "failed"
                   /\ file_exists(files', wk[w].file_hash) # {}
                   /\ wk'[w].results = Append(wk[w].results, "failed")
                   /\ UNCHANGED <<embeddings, qdrant>>]_vars

C23_Witness ==
    \E w \in Workers :
        /\ wk[w].pc = "except" /\ wk[w].error.stage = "embed"
        /\ wk[w].embeddings = 1 /\ wk[w].images = 2

\* C24: a file whose type has no processor fails in the get_processor step
\* with "No processor found for file type"; the handler leaves its row
\* 'failed' with that message, reports the file as failed, and the batch
\* goes on with the next file of the list.
C24_UnsupportedTypeFailsFileOnly ==
    [][\A w \in Workers :
          LET me == wk[w]
          IN (/\ me.pc \in {"convert", "embed", "upsert", "add_embedding", "except"}
              /\ documents[me.file_hash].file_type \notin SUPPORTED_FORMATS \cup {".pdf"})
             => /\ me.pc \in {"convert", "except"}
                /\ (me.pc = "convert" /\ wk'[w] # me) =>
                       /\ wk'[w].pc = "except"
                       /\ wk'[w].error.text = NoProcessorFound
                /\ (me.pc = "except" /\ me.error.stage = "convert" /\ wk'[w] # me) =>
                       /\ wk'[w].results = Append(me.results, "failed")
                       /\ wk'[w].failed = me.failed + 1
                       /\ \A r \in file_exists(files', me.file_hash) :
                              r.status = "failed" /\ r.error_message = NoProcessorFound
                       /\ file_exists(files', me.file_hash) # {}
                       /\ wk'[w].queue = Tail(me.queue)
                       /\ wk'[w].pc = IF Tail(me.queue) # <<>> THEN "item" ELSE "finish"
                       /\ UNCHANGED <<embeddings, qdrant>>]_vars

C24_Witness ==
    \E w \in Workers :
        /\ wk[w].op = "batch" /\ wk[w].pc = "finish"
        /\ wk[w].results = <<"failed", "success">>
        /\ documents[calculate_hash_from_bytes(wk[w].file_list[1])].file_type = ".txt"
        /\ \E r \in files : r.status = "failed" /\ r.error_message = NoProcessorFound

\* C25 (as claimed): a file whose conversion returned no page ends in
\* 'failed': its row is never 'embedded' and its run is never reported as
\* success.
C25_NoPagesIsFailure ==
    [][\A w \in Workers :
          (wk[w].pc = "add_embedding" /\ documents[wk[w].file_hash].pages = 0) =>
              /\ \A r \in file_exists(files, wk[w].file_hash) : r.status # "embedded"
              /\ wk'[w].results # Append(wk[w].results, "success")]_vars


(***************************************************************************)
(* Claims about references, batches of the uploader, the registry, the     *)
(* duplicate check, retries, deletion and startup.                         *)
(***************************************************************************)
\* C31 (as claimed): in every reachable state the file_id of every row of
\* embeddings is the file_id of a row of files, also after a file has been
\* processed again with skip_duplicates=False.
C31_EmbeddingRefersToFile ==
    \A e \in embeddings : \E r \in files : r.file_id = e.file_id


\* C32 (as claimed): SharePointToBlobUploader.process_batch transfers at
\* most batch_size files in each batch iteration, and when it returns,
\* files_processed (the number of results) is the number of files in the
\* work set.
C32_BatchesOfBatchSize ==
    up.op = "batch" =>
        /\ Len(up.results) <= up.batch_num * up.batch_size
        /\ up.pc = "return" => Len(up.results) = Cardinality(up.all_files)


\* C35 (as claimed): a step of retry_failed_files changes no row other than
\* the row of the file it is retrying, and the status it writes for that
\* file ('processing', then 'completed' or 'failed') arrives on that row,
\* also when the file's content has changed since the row was written.
C35_RetryTouchesOwnRowOnly ==
    [][up.pc \in {"retry", "retry_upload"} =>
          LET failed_file == Head(up.queue)
          IN /\ \A r \in file_tracking :
                   r.file_id # failed_file.file_id => r \in file_tracking'
             /\ up'.pc = "retry_upload" =>
                   \E r \in file_tracking' :
                       r.file_id = failed_file.file_id /\ r.status = "processing"
             /\ (Len(up'.results) > Len(up.results)
                     /\ up'.results[Len(up'.results)].status = "success") =>
                   \E r \in file_tracking' :
                       r.file_id = failed_file.file_id /\ r.status = "completed"]_vars


\* C36 (as claimed): when transfer_files or retry_failed_files is done
\* with a file (a result is appended, the call goes on or returns), every
\* row the call registered or moved to 'processing' for that file is
\* 'completed' or 'failed', whichever step raised.
C36_NothingLeftInProcessing ==
    [][(up.op \in {"transfer", "retry"} /\ Len(up'.results) > Len(up.results)) =>
          /\ up.pc \in {"transfer_upload", "retry_upload"} =>
                \A r \in file_tracking' :
                    r.file_hash = up.file_hash => r.status \in {"completed", "failed"}
          /\ \A r \in file_tracking' :
                (\A r0 \in file_tracking : r0.file_hash # r.file_hash)
                    => r.status \in {"completed", "failed"}]_vars


\* C38: retry_count is never negative and no operation of either store
\* lowers it: every row is still there after a step, with a retry_count at
\* least as high as before.
C38_RetryCountMonotone ==
    [][\A r \in Table :
          /\ r.retry_count >= 0
          /\ \E r2 \in Table' :
                /\ r2.file_hash = r.file_hash /\ r2.file_id = r.file_id
                /\ r2.retry_count >= r.retry_count]_vars

C38_Witness ==
    /\ \E r \in Table : r.retry_count >= 1 /\ r.status \in {"completed", "embedded"}
    /\ \E r \in Table : r.retry_count >= 1 /\ r.status = "pending"


(***************************************************************************)
(* DocumentProcessorFactory.get_processor on file paths.  A path is a      *)
(* sequence of characters; str.lower and str.endswith work on them.        *)
(***************************************************************************)
\* length of the paths handed to get_processor
MaxPathLen == 4

Characters == {".", "a", "p", "d", "f", "n", "g", "P", "G"}
Paths == UNION {[1..n -> Characters] : n \in 0..MaxPathLen}

\* str.lower on one character
lower_char(c) ==
    IF c = "P" THEN "p" ELSE IF c = "G" THEN "g" ELSE c

\* str.lower
lower(s) == [i \in 1..Len(s) |-> lower_char(s[i])]

\* str.endswith(suffix)
endswith(s, suffix) ==
    /\ Len(suffix) <= Len(s)
    /\ SubSeq(s, Len(s) - Len(suffix) + 1, Len(s)) = suffix

\* ImageProcessor.SUPPORTED_FORMATS as character sequences
SUPPORTED_FORMATS_chars ==
    {<<".", "p", "n", "g">>, <<".", "j", "p", "g">>, <<".", "j", "p", "e", "g">>,
     <<".", "b", "m", "p">>, <<".", "t", "i", "f", "f">>, <<".", "w", "e", "b", "p">>}

\* a PDFProcessor that takes whatever it is given
can_process_PDFTakesAll(processor, file_path) ==
    IF processor = "PDFProcessor" THEN TRUE
    ELSE \E suffix \in SUPPORTED_FORMATS_chars : endswith(lower(file_path), suffix)

\* PDFProcessor.can_process: file_path.lower().endswith('.pdf');
\* ImageProcessor.can_process: file_path.lower().endswith(SUPPORTED_FORMATS)
can_process(processor, file_path) ==
    IF processor = "PDFProcessor"
       THEN endswith(lower(file_path), <<".", "p", "d", "f">>)
       ELSE \E suffix \in SUPPORTED_FORMATS_chars : endswith(lower(file_path), suffix)

\* DocumentProcessorFactory._processors
processors == <<"PDFProcessor", "ImageProcessor">>

InitRegistry ==
    /\ program = "etl"
    /\ InitTables
    /\ documents = [h \in Hashes |-> OnePageImage]
    /\ sharepoint = [n \in FileIds |-> <<0>>]

\* get_processor(file_path) is called
DocumentProcessorFactory_get_processor(file_path) ==
    /\ registry.pc = "idle"
    /\ registry' = [pc |-> "for", file_path |-> file_path, index |-> 1,
                    processor |-> None]
    /\ UNCHANGED <<program, deleted, failed_calls, hasher, documents, indexVars, storeVars,
                   next_uuid, callst, created, pipeVars, startup>>

\* one round of `for processor in cls._processors: if
\* processor.can_process(file_path): return processor`
get_processor_for ==
    /\ registry.pc = "for"
    /\ registry.index <= Len(processors)
    /\ registry' = IF can_process(processors[registry.index], registry.file_path)
                      THEN [registry EXCEPT !.pc = "returned",
                                            !.processor = processors[registry.index]]
                      ELSE [registry EXCEPT !.index = @ + 1]
    /\ UNCHANGED <<program, deleted, failed_calls, hasher, documents, indexVars, storeVars,
                   next_uuid, callst, created, pipeVars, startup>>

\* the loop is over: return None
get_processor_return_None ==
    /\ registry.pc = "for"
    /\ registry.index > Len(processors)
    /\ registry' = [registry EXCEPT !.pc = "returned", !.processor = None]
    /\ UNCHANGED <<program, deleted, failed_calls, hasher, documents, indexVars, storeVars,
                   next_uuid, callst, created, pipeVars, startup>>

\* the caller has taken the result
get_processor_returned ==
    /\ registry.pc = "returned"
    /\ registry' = IdleRegistry
    /\ UNCHANGED <<program, deleted, failed_calls, hasher, documents, indexVars, storeVars,
                   next_uuid, callst, created, pipeVars, startup>>

NextRegistry ==
    \/ /\ registry.pc = "idle"
       /\ \E file_path \in Paths : DocumentProcessorFactory_get_processor(file_path)
    \/ get_processor_for
    \/ get_processor_return_None
    \/ get_processor_returned

SpecRegistry == InitRegistry /\ [][NextRegistry]_vars

\* the processors that accept a path
Accepting(file_path) ==
    {i \in 1..Len(processors) : can_process(processors[i], file_path)}

\* C33: get_processor returns the first processor of [PDF, image] that
\* accepts the path and None when none accepts; the match is on the
\* lower-cased end of the path, and no path is accepted by more than one
\* processor, so the order of the list does not matter.
C33_FirstAcceptingProcessor ==
    registry.pc = "returned" =>
        LET file_path == registry.file_path
        IN /\ Cardinality(Accepting(file_path)) <= 1
           /\ registry.processor = None <=> Accepting(file_path) = {}
           /\ registry.processor # None =>
                 \E i \in Accepting(file_path) :
                     /\ processors[i] = registry.processor
                     /\ \A j \in Accepting(file_path) : i <= j
           /\ registry.processor = "PDFProcessor"
                 <=> /\ Len(file_path) >= 4
                     /\ file_path[Len(file_path) - 3] = "."
                     /\ file_path[Len(file_path) - 2] \in {"p", "P"}
                     /\ file_path[Len(file_path) - 1] = "d"
                     /\ file_path[Len(file_path)] = "f"
           /\ registry.processor = "ImageProcessor"
                 <=> /\ Len(file_path) >= 4
                     /\ file_path[Len(file_path) - 3] = "."
                     /\ file_path[Len(file_path) - 2] \in {"p", "P"}
                     /\ file_path[Len(file_path) - 1] = "n"
                     /\ file_path[Len(file_path)] \in {"g", "G"}

C33_Witness ==
    /\ registry.pc = "returned"
    /\ registry.file_path = <<".", "P", "n", "G">>
    /\ registry.processor = "ImageProcessor"


(***************************************************************************)
(* The duplicate check of the three entry points: process_batch and        *)
(* process_single_file of the ETL service, transfer_files of the uploader. *)
(***************************************************************************)
InitDuplicates == InitETL \/ InitUploader

NextDuplicates ==
    \/ /\ program = "etl"
       /\ Run(1, MaxCrashItems)
    \/ /\ program = "uploader"
       /\ NextUploader

SpecDuplicates == InitDuplicates /\ [][NextDuplicates]_vars

\* the rows of a table that carry file_hash, whatever their status
RowsWithHash(tbl, file_hash) == {r \in tbl : r.file_hash = file_hash}

\* C34: the duplicate check does not look at the status.  When a file is
\* handled with skip_duplicates = true and the store holds a row with the
\* file's hash, in any status, the step that handles the file leaves the store
\* as it is and does not enter processing: process_batch and transfer_files
\* append a skipped result, process_single_file returns one (the only other
\* outcome is a failed download, before any hash is computed).
C34_DuplicateCheckIgnoresStatus ==
    [][ /\ \A w \in Workers :
              (/\ program = "etl"
               /\ wk[w].pc = "item"
               /\ wk[w].skip
               /\ RowsWithHash(files,
                      calculate_hash_from_bytes(Head(wk[w].queue))) # {}
               /\ wk'[w] # wk[w])
              => /\ files' = files
                 /\ wk'[w].pc # "add_check"
                 /\ \/ wk'[w].results = Append(wk[w].results, "skipped")
                    \/ /\ wk[w].op = "batch"
                       /\ wk'[w].results = Append(wk[w].results, "failed")
                    \/ /\ wk[w].op = "single"
                       /\ wk'[w].raised
        /\ (/\ program = "uploader"
            /\ up.pc = "transfer"
            /\ up.skip
            /\ RowsWithHash(file_tracking,
                   calculate_file_hash(sharepoint[Head(up.queue).file_id])) # {}
            /\ up' # up
            /\ up'.pc # "idle")
           => /\ file_tracking' = file_tracking
              /\ up'.pc # "transfer_upload"
              /\ Len(up'.results) = Len(up.results) + 1
              /\ up'.results[Len(up'.results)].file_id = Head(up.queue).file_id
              /\ up'.results[Len(up'.results)].status \in {"skipped", "failed"}
      ]_vars

\* transfer_files has reported a file as skipped whose own row is failed or
\* still pending
C34_Witness ==
    /\ program = "uploader"
    /\ up.op = "transfer"
    /\ up.skip
    /\ \E i \in 1..Len(up.results) :
          /\ up.results[i].status = "skipped"
          /\ \E r \in file_tracking :
                /\ r.file_id = up.results[i].file_id
                /\ r.file_hash = calculate_file_hash(sharepoint[r.file_id])
                /\ r.status \in {"failed", "pending"}


(***************************************************************************)
(* ETLService.delete_document                                              *)
(***************************************************************************)
MaxDeleteItems == 2

\* delete_document that also removes the file's rows from the metadata store
metadata_rows_after_delete_RowsRemoved(tbl, file_id) ==
    {r \in tbl : r.file_id # file_id}

\* ETLService.delete_document: "Could implement database deletion here if
\* needed": no statement of the handler touches the metadata store
metadata_rows_after_delete(tbl, file_id) == tbl

\* VectorDBManager.delete_document: client.delete with the filter
\* document_id = <document_id>
VectorDBManager_delete_document(points, document_id) ==
    {p \in points : p.document_id # document_id}

\* the file_id values delete_document is called with: those of the rows of
\* table `files`, and one that no row carries
KnownFileIds == {r.file_id : r \in files} \cup {0}

\* DELETE /documents/{file_id}: ETLService.delete_document(file_id,
\* delete_from_vector_db); calls are served one after the other
ETLService_delete_document(file_id, delete_from_vector_db) ==
    /\ program = "etl"
    /\ \A w \in Workers : wk[w].pc = "idle"
    /\ \/ \* client.delete raises: HTTPException(500)
          /\ delete_from_vector_db
          /\ deleted' = [deleted EXCEPT !.raised = TRUE]
          /\ UNCHANGED <<files, embeddings, qdrant>>
       \/ /\ delete_from_vector_db
          /\ qdrant' = VectorDBManager_delete_document(qdrant, file_id)
          /\ files' = metadata_rows_after_delete(files, file_id)
          /\ embeddings' = metadata_rows_after_delete(embeddings, file_id)
          /\ deleted' = [ids |-> deleted.ids \cup {file_id}, raised |-> FALSE]
       \/ /\ ~delete_from_vector_db
          /\ files' = metadata_rows_after_delete(files, file_id)
          /\ embeddings' = metadata_rows_after_delete(embeddings, file_id)
          /\ deleted' = [deleted EXCEPT !.raised = FALSE]
          /\ UNCHANGED qdrant
    /\ UNCHANGED <<program, registry, startup, failed_calls, hasher, documents,
                   file_tracking, next_uuid, callst, created, pipeVars>>

NextDelete ==
    \/ Run(1, MaxDeleteItems)
    \/ \E file_id \in KnownFileIds, delete_from_vector_db \in BOOLEAN :
          ETLService_delete_document(file_id, delete_from_vector_db)

SpecDelete == InitETL /\ [][NextDelete]_vars

startup_max_retries == 3

\* retry_delay = 5, seconds
retry_delay == 5

\* a handler that sleeps and goes round again after every failure
should_retry_Always(attempt, retries) == TRUE

\* `if attempt < max_retries - 1:` sleep, `else: raise`
should_retry(attempt, retries) == attempt < retries - 1

InitStartup ==
    /\ program = "api"
    /\ InitTables
    /\ documents = [h \in Hashes |-> OnePageImage]
    /\ sharepoint = [n \in FileIds |-> <<0>>]

\* the server fires the startup event; QDRANT_URL and QDRANT_API_KEY are
\* read from the environment (set or empty)
startup_event(url, api_key) ==
    /\ program = "api"
    /\ startup.pc = "init"
    /\ startup' = [startup EXCEPT !.pc = "load_model", !.QDRANT_URL = url,
                                  !.QDRANT_API_KEY = api_key]
    /\ UNCHANGED <<program, registry, deleted, failed_calls, hasher, documents,
                   indexVars, storeVars, next_uuid, callst, created, pipeVars>>

\* ColPali.from_pretrained / ColPaliProcessor.from_pretrained: loaded, or the
\* exception is logged and re-raised
startup_load_model ==
    /\ startup.pc = "load_model"
    /\ \/ startup' = [startup EXCEPT !.pc = "connect", !.attempt = 0]
       \/ startup' = [startup EXCEPT !.pc = "error", !.e = "from_pretrained"]
    /\ UNCHANGED <<program, registry, deleted, failed_calls, hasher, documents,
                   indexVars, storeVars, next_uuid, callst, created, pipeVars>>

\* one round of `for attempt in range(max_retries)`, the try block up to the
\* construction of the client: cloud when both settings are there, else local
startup_connect ==
    /\ startup.pc = "connect"
    /\ LET client == IF startup.QDRANT_URL /\ startup.QDRANT_API_KEY
                     THEN "cloud" ELSE "local"
       IN \/ startup' = [startup EXCEPT !.pc = "get_collections",
                                        !.attempts = @ + 1,
                                        !.qdrant_client = client]
          \/ startup' = [startup EXCEPT !.pc = "except", !.attempts = @ + 1,
                                        !.e = "QdrantClient"]
    /\ UNCHANGED <<program, registry, deleted, failed_calls, hasher, documents,
                   indexVars, storeVars, next_uuid, callst, created, pipeVars>>

\* qdrant_client.get_collections(): the collection is there (log, break), is
\* not there, or the request raises
startup_get_collections ==
    /\ startup.pc = "get_collections"
    /\ \/ \E collection_exists \in BOOLEAN :
             startup' = [startup EXCEPT !.pc = IF collection_exists
                                               THEN "connected"
                                               ELSE "create_collection"]
       \/ startup' = [startup EXCEPT !.pc = "except", !.e = "get_collections"]
    /\ UNCHANGED <<program, registry, deleted, failed_calls, hasher, documents,
                   indexVars, storeVars, next_uuid, callst, created, pipeVars>>

\* qdrant_client.create_collection(...), then `break`
startup_create_collection ==
    /\ startup.pc = "create_collection"
    /\ \/ startup' = [startup EXCEPT !.pc = "connected"]
       \/ startup' = [startup EXCEPT !.pc = "except", !.e = "create_collection"]
    /\ UNCHANGED <<program, registry, deleted, failed_calls, hasher, documents,
                   indexVars, storeVars, next_uuid, callst, created, pipeVars>>

\* `except Exception as e`: the error is logged, then sleep or raise
startup_except ==
    /\ startup.pc = "except"
    /\ startup' = [startup EXCEPT
           !.log = Append(@, [attempt |-> startup.attempt + 1, e |-> startup.e]),
           !.pc = IF should_retry(startup.attempt, startup_max_retries)
                  THEN "sleep" ELSE "error"]
    /\ UNCHANGED <<program, registry, deleted, failed_calls, hasher, documents,
                   indexVars, storeVars, next_uuid, callst, created, pipeVars>>

\* time.sleep(retry_delay), then the next value of range(max_retries); when
\* the range is used up the loop ends and startup_event returns
startup_sleep ==
    /\ startup.pc = "sleep"
    /\ startup' = [startup EXCEPT
           !.slept = @ + retry_delay,
           !.attempt = IF @ + 1 < startup_max_retries THEN @ + 1 ELSE @,
           !.pc = IF startup.attempt + 1 < startup_max_retries
                  THEN "connect" ELSE "returned"]
    /\ UNCHANGED <<program, registry, deleted, failed_calls, hasher, documents,
                   indexVars, storeVars, next_uuid, callst, created, pipeVars>>

NextStartup ==
    \/ \E url \in BOOLEAN, api_key \in BOOLEAN : startup_event(url, api_key)
    \/ startup_load_model
    \/ startup_connect
    \/ startup_get_collections
    \/ startup_create_collection
    \/ startup_except
    \/ startup_sleep

SpecStartup == InitStartup /\ [][NextStartup]_vars

\* every statement of startup_event returns or raises: the clients' requests
\* have timeouts and time.sleep(5) ends, so a step that can be taken is taken
FairSpecStartup == SpecStartup /\ WF_vars(NextStartup)

\* the attempt whose try block is running or has just ended
InAttempt ==
    startup.pc \in {"get_collections", "create_collection", "connected", "except"}

\* C39: the connection retry of startup_event makes at most max_retries = 3
\* attempts; before every attempt after the first it has slept retry_delay
\* seconds once per failed attempt; it stops at the first attempt that
\* succeeds; the third failure in a row raises instead of sleeping again (the
\* loop never runs out without a connection or an exception); and startup
\* always ends, connected or with the error raised.
C39_StartupRetryTerminates ==
    /\ [](/\ startup.attempts <= startup_max_retries
          /\ Len(startup.log) <= startup_max_retries
          /\ startup.pc # "returned"
          /\ InAttempt =>
                /\ startup.attempts = startup.attempt + 1
                /\ Len(startup.log) =
                       IF startup.pc = "connected" \/ startup.pc = "except"
                       THEN startup.attempt ELSE startup.attempts - 1
                /\ startup.slept = retry_delay * startup.attempt
          /\ startup.pc = "connected" =>
                /\ startup.qdrant_client \in {"cloud", "local"}
                /\ startup.attempts = Len(startup.log) + 1
          /\ startup.pc = "error" =>
                \/ /\ startup.e = "from_pretrained"
                   /\ startup.attempts = 0
                \/ /\ startup.attempts = 3
                   /\ Len(startup.log) = 3
                   /\ startup.slept = 2 * retry_delay)
    /\ [][/\ startup.pc \in {"connected", "error"} => startup' = startup
          /\ startup.attempts' > startup.attempts =>
                /\ startup.attempts' = startup.attempts + 1
                /\ startup.slept = retry_delay * startup.attempts
                /\ Len(startup.log) = startup.attempts
          /\ startup.pc = "except" =>
                /\ Len(startup.log') = Len(startup.log) + 1
                /\ startup.pc' = IF Len(startup.log') < 3 THEN "sleep" ELSE "error"
         ]_vars
    /\ <>(startup.pc \in {"connected", "error"})

\* three attempts failed, two sleeps in between, and the third failure raised
C39_Witness ==
    /\ startup.pc = "error"
    /\ startup.attempts = 3
    /\ Len(startup.log) = 3
    /\ startup.log[3].attempt = 3
    /\ startup.log[1].e # startup.log[3].e
    /\ startup.slept = 2 * retry_delay

====
